---------------------------- MODULE Spec2Model ----------------------------
(***************************************************************************)
(* Monte Carlo Tree Search over the Game trait: the generic engine of      *)
(* src/mcts2.rs, the TicTacToe-specific engine of src/mcts.rs, and the     *)
(* games they search.                                                      *)
(*                                                                         *)
(* Conventions.  Option<T> is a sequence of length at most one: None is    *)
(* << >> and Some(x) is <<x>>.  Vec<T> is a sequence; the arena index i of *)
(* the source is position i + 1 of the sequence nodes.  Rewards are kept   *)
(* in halves (1.0 is 2, 0.5 is 1) so that they stay integers.              *)
(***************************************************************************)
EXTENDS Integers, Sequences, FiniteSets, TLC

None == << >>
Some(x) == <<x>>
IsSome(o) == Len(o) = 1
Unwrap(o) == o[1]

Range(seq) == {seq[k] : k \in 1..Len(seq)}

(***************************************************************************)
(* Bounds of the model.                                                    *)
(***************************************************************************)
\* search is called with at most this many iterations
MaxIters == 4
\* the caller starts a search only when at most this many cells are free
MaxFree == 3
\* on each turn of the set-up play the caller picks among this many of the
\* lowest and of the highest free cells
SetupWidth == 1
\* the positions a move is tried on take their actions from 0..MaxPos
MaxPos == 9
\* Connect4 is played freely for this many plies from the empty board
C4FreePlies == 4
\* and freely again once at most this many cells are empty
C4EndFree == 5

(***************************************************************************)
(* game.rs: Player, GameResult                                             *)
(***************************************************************************)
Player == {"X", "O"}

opponent(p) == IF p = "X" THEN "O" ELSE "X"

Win(p) == [tag |-> "Win", player |-> p]
Draw == [tag |-> "Draw"]
End(r) == [tag |-> "End", reward |-> r]

(***************************************************************************)
(* game.rs: TicTacToe                                                      *)
(***************************************************************************)
Empty == "."
Occupied(p) == p

WIN_LINES ==
    << <<0, 1, 2>>, <<3, 4, 5>>, <<6, 7, 8>>,
       <<0, 3, 6>>, <<1, 4, 7>>, <<2, 5, 8>>,
       <<0, 4, 8>>, <<2, 4, 6>> >>

TicTacToe_default ==
    [kind |-> "TicTacToe",
     board |-> [i \in 0..8 |-> Empty],
     current_player |-> "X",
     result |-> None]

TicTacToe_is_terminal(s) == IsSome(s.result)

\* the first line of WIN_LINES, from position k on, held by one player
RECURSIVE FirstWinLine(_, _)
FirstWinLine(board, k) ==
    IF k > Len(WIN_LINES) THEN None
    ELSE LET line == WIN_LINES[k]
             c == board[line[1]]
         IN IF c # Empty /\ \A j \in 1..3 : board[line[j]] = c
            THEN Some(c)
            ELSE FirstWinLine(board, k + 1)

\* update_result testing the full board before the lines
TicTacToe_update_result_draw_first(s) ==
    LET w == FirstWinLine(s.board, 1)
    IN IF \A i \in 0..8 : s.board[i] # Empty
       THEN [s EXCEPT !.result = Some(Draw)]
       ELSE IF IsSome(w) THEN [s EXCEPT !.result = Some(Win(Unwrap(w)))]
            ELSE s

\* update_result without its last test, the full board
TicTacToe_update_result_without_draw(s) ==
    LET w == FirstWinLine(s.board, 1)
    IN IF IsSome(w) THEN [s EXCEPT !.result = Some(Win(Unwrap(w)))]
       ELSE s

TicTacToe_update_result(s) ==
    LET w == FirstWinLine(s.board, 1)
    IN IF IsSome(w) THEN [s EXCEPT !.result = Some(Win(Unwrap(w)))]
       ELSE IF \A i \in 0..8 : s.board[i] # Empty
            THEN [s EXCEPT !.result = Some(Draw)]
            ELSE s

\* the empty cells among i..8, ascending (the enumerate/filter/map of the source)
RECURSIVE EmptyCells(_, _)
EmptyCells(board, i) ==
    IF i > 8 THEN << >>
    ELSE IF board[i] = Empty THEN <<i>> \o EmptyCells(board, i + 1)
         ELSE EmptyCells(board, i + 1)

TicTacToe_allowed_actions(s) ==
    IF TicTacToe_is_terminal(s) THEN << >>
    ELSE EmptyCells(s.board, 0)

\* step that hands the turn over only while the game goes on
TicTacToe_step_keeps_turn_at_end(s, action) ==
    IF action >= 9 THEN [ok |-> FALSE, state |-> s]
    ELSE IF s.board[action] # Empty THEN [ok |-> FALSE, state |-> s]
    ELSE IF TicTacToe_is_terminal(s) THEN [ok |-> FALSE, state |-> s]
    ELSE LET placed == [s EXCEPT !.board[action] = Occupied(s.current_player)]
             updated == TicTacToe_update_result(placed)
         IN [ok |-> TRUE,
             state |-> IF TicTacToe_is_terminal(updated) THEN updated
                       ELSE [updated EXCEPT
                               !.current_player = opponent(updated.current_player)]]

\* step without its test of is_terminal
TicTacToe_step_without_terminal_check(s, action) ==
    IF action >= 9 THEN [ok |-> FALSE, state |-> s]
    ELSE IF s.board[action] # Empty THEN [ok |-> FALSE, state |-> s]
    ELSE LET placed == [s EXCEPT !.board[action] = Occupied(s.current_player)]
             updated == TicTacToe_update_result(placed)
         IN [ok |-> TRUE,
             state |-> [updated EXCEPT
                          !.current_player = opponent(updated.current_player)]]

\* Result<(), &str>: ok says which, state is self after the call
TicTacToe_step(s, action) ==
    IF action >= 9 THEN [ok |-> FALSE, state |-> s]
    ELSE IF s.board[action] # Empty THEN [ok |-> FALSE, state |-> s]
    ELSE IF TicTacToe_is_terminal(s) THEN [ok |-> FALSE, state |-> s]
    ELSE LET placed == [s EXCEPT !.board[action] = Occupied(s.current_player)]
             updated == TicTacToe_update_result(placed)
         IN [ok |-> TRUE,
             state |-> [updated EXCEPT
                          !.current_player = opponent(updated.current_player)]]

(***************************************************************************)
(* game/connect4.rs: Connect4.  board[row][col], row 0 the top row; a Cell *)
(* is an Option<Player>.                                                   *)
(***************************************************************************)
ROWS == 6
COLS == 7

Connect4_default ==
    [kind |-> "Connect4",
     board |-> [row \in 0..(ROWS - 1) |-> [col \in 0..(COLS - 1) |-> None]],
     current_player |-> "X",
     result |-> None]

Connect4_is_terminal(s) == IsSome(s.result)

\* the runs of four cells update_result examines, in the order of its loops:
\* each run starts at (row, col) and advances by (drow, dcol)
HorizontalLines ==
    [k \in 1..(ROWS * (COLS - 3)) |->
        [row |-> (k - 1) \div (COLS - 3), col |-> (k - 1) % (COLS - 3),
         drow |-> 0, dcol |-> 1]]

VerticalLines ==
    [k \in 1..((ROWS - 3) * COLS) |->
        [row |-> (k - 1) \div COLS, col |-> (k - 1) % COLS,
         drow |-> 1, dcol |-> 0]]

DiagonalUpLines ==
    [k \in 1..((ROWS - 3) * (COLS - 3)) |->
        [row |-> 3 + (k - 1) \div (COLS - 3), col |-> (k - 1) % (COLS - 3),
         drow |-> -1, dcol |-> 1]]

DiagonalDownLines ==
    [k \in 1..((ROWS - 3) * (COLS - 3)) |->
        [row |-> (k - 1) \div (COLS - 3), col |-> (k - 1) % (COLS - 3),
         drow |-> 1, dcol |-> 1]]

\* the runs update_result would examine without its third loop
Connect4_lines_without_diagonal_up ==
    HorizontalLines \o VerticalLines \o DiagonalDownLines

Connect4_lines ==
    HorizontalLines \o VerticalLines \o DiagonalUpLines \o DiagonalDownLines

\* the run starts on a piece and its four cells hold that player's pieces
Connect4_line_won(board, line) ==
    /\ IsSome(board[line.row][line.col])
    /\ \A i \in 0..3 :
         board[line.row + i * line.drow][line.col + i * line.dcol] =
             board[line.row][line.col]

\* update_result without its last test, the full top row
Connect4_update_result_without_draw(s) ==
    LET won == {k \in 1..Len(Connect4_lines) :
                   Connect4_line_won(s.board, Connect4_lines[k])}
    IN IF won # {}
       THEN LET first == CHOOSE k \in won : \A j \in won : k <= j
                line == Connect4_lines[first]
            IN [s EXCEPT !.result =
                             Some(Win(Unwrap(s.board[line.row][line.col])))]
       ELSE s

Connect4_update_result(s) ==
    LET won == {k \in 1..Len(Connect4_lines) :
                   Connect4_line_won(s.board, Connect4_lines[k])}
    IN IF won # {}
       THEN LET first == CHOOSE k \in won : \A j \in won : k <= j
                line == Connect4_lines[first]
            IN [s EXCEPT !.result =
                             Some(Win(Unwrap(s.board[line.row][line.col])))]
       ELSE IF \A col \in 0..(COLS - 1) : IsSome(s.board[0][col])
            THEN [s EXCEPT !.result = Some(Draw)]
            ELSE s

\* the piece lands on the lowest empty row of the column; Err when there is none
Connect4_drop_piece(s, col) ==
    LET empty == {row \in 0..(ROWS - 1) : ~IsSome(s.board[row][col])}
    IN IF empty = {} THEN [ok |-> FALSE, state |-> s]
       ELSE LET row == CHOOSE r \in empty : \A q \in empty : q <= r
            IN [ok |-> TRUE,
                state |-> [s EXCEPT !.board[row][col] = Some(s.current_player)]]

\* the columns among col..COLS-1 whose top cell is empty, ascending
RECURSIVE OpenColumns(_, _)
OpenColumns(board, col) ==
    IF col >= COLS THEN << >>
    ELSE IF ~IsSome(board[0][col]) THEN <<col>> \o OpenColumns(board, col + 1)
         ELSE OpenColumns(board, col + 1)

\* allowed_actions listing every column, full or not
Connect4_allowed_actions_all_columns(s) ==
    IF Connect4_is_terminal(s) THEN << >> ELSE [k \in 1..COLS |-> k - 1]

Connect4_allowed_actions(s) ==
    IF Connect4_is_terminal(s) THEN << >>
    ELSE OpenColumns(s.board, 0)

\* step dropping the piece before it tests is_terminal
Connect4_step_drop_before_terminal_check(s, action) ==
    IF action >= COLS THEN [ok |-> FALSE, state |-> s]
    ELSE IF IsSome(s.board[0][action]) THEN [ok |-> FALSE, state |-> s]
    ELSE LET dropped == Connect4_drop_piece(s, action)
         IN IF ~dropped.ok \/ Connect4_is_terminal(s)
            THEN [ok |-> FALSE, state |-> dropped.state]
            ELSE LET updated == Connect4_update_result(dropped.state)
                 IN [ok |-> TRUE,
                     state |-> [updated EXCEPT
                                  !.current_player = opponent(updated.current_player)]]

Connect4_step(s, action) ==
    IF action >= COLS THEN [ok |-> FALSE, state |-> s]
    ELSE IF IsSome(s.board[0][action]) THEN [ok |-> FALSE, state |-> s]
    ELSE IF Connect4_is_terminal(s) THEN [ok |-> FALSE, state |-> s]
    ELSE LET dropped == Connect4_drop_piece(s, action)
         IN IF ~dropped.ok THEN [ok |-> FALSE, state |-> dropped.state]
            ELSE LET updated == Connect4_update_result(dropped.state)
                 IN [ok |-> TRUE,
                     state |-> [updated EXCEPT
                                  !.current_player = opponent(updated.current_player)]]

(***************************************************************************)
(* A reward-accumulating single-agent game (the End(reward) shape of the   *)
(* Game contract).  current_reward and result are those of game/tetris.rs; *)
(* the moves are a small stand-in for its step: NoOp-like action 0 keeps   *)
(* the reward, action 1 earns one point, action 2 loses one, and the game  *)
(* ends after ScoreTicks steps.                                            *)
(***************************************************************************)
ScoreTicks == 2

Score_new == [kind |-> "Score", rewards |-> 0, tick |-> 0, is_terminal |-> FALSE]

Score_current_reward(s) == s.rewards

Score_result(s) == IF s.is_terminal THEN Some(End(s.rewards)) ELSE None

Score_allowed_actions(s) == IF s.is_terminal THEN << >> ELSE <<0, 1, 2>>

Score_step(s, action) ==
    IF s.is_terminal \/ action > 2 THEN [ok |-> FALSE, state |-> s]
    ELSE [ok |-> TRUE,
          state |-> [s EXCEPT
                       !.rewards = IF action = 1 THEN @ + 2
                                   ELSE IF action = 2 THEN @ - 2 ELSE @,
                       !.tick = @ + 1,
                       !.is_terminal = (s.tick + 1 >= ScoreTicks)]]

(***************************************************************************)
(* A game that breaks the contract of step: TicTacToe, except that step    *)
(* refuses the centre cell while allowed_actions still lists it.  It is    *)
(* the game the engines' failure paths are exercised on.                   *)
(***************************************************************************)
Faulty_default == [TicTacToe_default EXCEPT !.kind = "Faulty"]

Faulty_allowed_actions(s) == TicTacToe_allowed_actions(s)

Faulty_step(s, action) ==
    IF action = 4 THEN [ok |-> FALSE, state |-> s]
    ELSE TicTacToe_step(s, action)

(***************************************************************************)
(* game.rs: trait Game, dispatched on the implementing type                *)
(***************************************************************************)
result(s) ==
    CASE s.kind = "TicTacToe" -> s.result
      [] s.kind = "Connect4" -> s.result
      [] s.kind = "Faulty" -> s.result
      [] OTHER -> Score_result(s)

allowed_actions(s) ==
    CASE s.kind = "TicTacToe" -> TicTacToe_allowed_actions(s)
      [] s.kind = "Connect4" -> Connect4_allowed_actions(s)
      [] s.kind = "Faulty" -> Faulty_allowed_actions(s)
      [] OTHER -> Score_allowed_actions(s)

current_player(s) ==
    CASE s.kind = "TicTacToe" -> s.current_player
      [] s.kind = "Connect4" -> s.current_player
      [] s.kind = "Faulty" -> s.current_player
      [] OTHER -> "X"

step(s, action) ==
    CASE s.kind = "TicTacToe" -> TicTacToe_step(s, action)
      [] s.kind = "Connect4" -> Connect4_step(s, action)
      [] s.kind = "Faulty" -> Faulty_step(s, action)
      [] OTHER -> Score_step(s, action)

current_reward(s) ==
    CASE s.kind = "Score" -> Score_current_reward(s)
      [] OTHER -> 0

(***************************************************************************)
(* mcts2.rs / mcts.rs: Node                                                *)
(***************************************************************************)
Node_new(parent, state, action) ==
    [state |-> state,
     parent |-> parent,
     children |-> << >>,
     action |-> action,
     visits |-> 0,
     reward |-> 0,
     untried_actions |-> allowed_actions(state)]

is_terminal(node) == IsSome(result(node.state))

is_fully_expanded(node) == Len(node.untried_actions) = 0

\* the node at arena index idx
At(arena, idx) == arena[idx + 1]

(***************************************************************************)
(* Scores.  A score x of the source is the integer floor(x * ScoreUnit);   *)
(* ScoreUnit is a multiple of 2 * v for every visit count v the model      *)
(* reaches, so reward / visits is exact and equal averages compare equal.  *)
(* LnQ[p] is ln(p) * ScoreUnit^2 rounded, and Isqrt the integer square     *)
(* root, so Isqrt(2 * LnQ[p] \div v) is sqrt(2 ln(p) / v) * ScoreUnit.     *)
(***************************************************************************)
ScoreUnit == 64 * 315

Infinity == 1073741824

NaN == -Infinity

LnQ ==
    <<0, 281712759, 446504159, 563425517, 654116769, 728216917,
      790867700, 845138276, 893008317, 935829528, 974566025, 1009929676>>

RECURSIVE IsqrtIter(_, _)
IsqrtIter(n, x) ==
    LET y == (x + n \div x) \div 2
    IN IF y >= x THEN x ELSE IsqrtIter(n, y)

Isqrt(n) == IF n = 0 THEN 0 ELSE IsqrtIter(n, n)

\* uct scoring a node that was never visited 0.0
uct_unvisited_zero(node, parent_visits) ==
    IF node.visits = 0 THEN 0
    ELSE IF parent_visits = 0 THEN NaN
    ELSE LET r_exploit == (node.reward * (ScoreUnit \div 2)) \div node.visits
             r_explore == Isqrt((2 * LnQ[parent_visits]) \div node.visits)
         IN r_exploit + r_explore

\* mcts2.rs Node::uct; parent_visits = 0 makes ln -inf and the sqrt NaN
uct(node, parent_visits) ==
    IF node.visits = 0 THEN Infinity
    ELSE IF parent_visits = 0 THEN NaN
    ELSE LET r_exploit == (node.reward * (ScoreUnit \div 2)) \div node.visits
             r_explore == Isqrt((2 * LnQ[parent_visits]) \div node.visits)
         IN r_exploit + r_explore

\* mcts.rs Node::ucb1; exploration2 is the square of exploration_constant
ucb1(node, parent_visits, exploration2) ==
    IF node.visits = 0 THEN Infinity
    ELSE IF parent_visits = 0 THEN NaN
    ELSE LET exploitation == (node.reward * (ScoreUnit \div 2)) \div node.visits
             exploration_term ==
                 Isqrt((exploration2 * LnQ[parent_visits]) \div node.visits)
         IN exploitation + exploration_term

\* Iterator::max_by: a fold that keeps the later element unless the earlier
\* one compares Greater, so the last of several maxima wins; the position
\* in keys of the element the fold ends with
RECURSIVE MaxByFold(_, _, _)
MaxByFold(keys, k, best) ==
    IF k > Len(keys) THEN best
    ELSE MaxByFold(keys, k + 1, IF keys[best] > keys[k] THEN best ELSE k)

\* a maximum that keeps the earlier of two equal elements: the first of
\* several maxima wins
RECURSIVE MaxByFoldFirst(_, _, _)
MaxByFoldFirst(keys, k, best) ==
    IF k > Len(keys) THEN best
    ELSE MaxByFoldFirst(keys, k + 1, IF keys[k] > keys[best] THEN k ELSE best)

max_by_first(keys) == MaxByFoldFirst(keys, 2, 1)

max_by(keys) == MaxByFold(keys, 2, 1)

\* partial_cmp(..).unwrap() panics when a NaN is compared
ComparesNaN(keys) == Len(keys) >= 2 /\ \E k \in 1..Len(keys) : keys[k] = NaN

(***************************************************************************)
(* mcts2.rs: Mcts<S> (the generic engine).  An operation that can panic    *)
(* returns a record whose ok field says whether it returned.               *)
(***************************************************************************)
best_child(arena, node_idx) ==
    LET node == At(arena, node_idx)
        keys == [k \in 1..Len(node.children) |->
                    uct(At(arena, node.children[k]), node.visits)]
    IN IF Len(node.children) = 0 \/ ComparesNaN(keys)
       THEN [ok |-> FALSE, idx |-> node_idx]
       ELSE [ok |-> TRUE, idx |-> node.children[max_by(keys)]]

RECURSIVE select_from(_, _)
select_from(arena, idx) ==
    LET node == At(arena, idx)
    IN IF is_terminal(node) THEN [ok |-> TRUE, idx |-> idx]
       ELSE IF is_fully_expanded(node)
            THEN LET c == best_child(arena, idx)
                 IN IF c.ok THEN select_from(arena, c.idx) ELSE c
            ELSE [ok |-> TRUE, idx |-> idx]

\* select descending as soon as a node has a child, untried actions or not
RECURSIVE select_from_through_partial(_, _)
select_from_through_partial(arena, idx) ==
    LET node == At(arena, idx)
    IN IF is_terminal(node) THEN [ok |-> TRUE, idx |-> idx]
       ELSE IF Len(node.children) >= 1
            THEN LET c == best_child(arena, idx)
                 IN IF c.ok THEN select_from_through_partial(arena, c.idx) ELSE c
            ELSE [ok |-> TRUE, idx |-> idx]

select_through_partial(arena) == select_from_through_partial(arena, 0)

\* select that never descends: every iteration works on the root
select_at_root(arena) == [ok |-> TRUE, idx |-> 0]

select(arena) == select_from(arena, 0)

\* expand recording the child's index as its action
expand_index_as_action(arena, node_idx) ==
    LET node == At(arena, node_idx)
    IN IF is_terminal(node) \/ Len(node.untried_actions) = 0
       THEN [ok |-> TRUE, arena |-> arena, idx |-> node_idx]
       ELSE LET n == Len(node.untried_actions)
                stepped == step(node.state, node.untried_actions[n])
                child_idx == Len(arena)
                child_node == Node_new(Some(node_idx), stepped.state, Some(child_idx))
                popped == [arena EXCEPT ![node_idx + 1].untried_actions =
                                            SubSeq(@, 1, n - 1)]
            IN [ok |-> stepped.ok,
                arena |-> [Append(popped, child_node) EXCEPT
                             ![node_idx + 1].children = Append(@, child_idx)],
                idx |-> child_idx]

\* expand stepping the node's own state instead of a clone of it
expand_steps_in_place(arena, node_idx) ==
    LET node == At(arena, node_idx)
        n == Len(node.untried_actions)
    IN IF is_terminal(node) \/ n = 0
       THEN [ok |-> TRUE, arena |-> arena, idx |-> node_idx]
       ELSE LET stepped == step(node.state, node.untried_actions[n])
                popped == [arena EXCEPT ![node_idx + 1].untried_actions =
                                            SubSeq(@, 1, n - 1),
                                        ![node_idx + 1].state = stepped.state]
                child_idx == Len(arena)
                child_node == Node_new(Some(node_idx), stepped.state,
                                       Some(node.untried_actions[n]))
            IN [ok |-> stepped.ok,
                arena |-> [Append(popped, child_node) EXCEPT
                             ![node_idx + 1].children = Append(@, child_idx)],
                idx |-> child_idx]

\* expand taking the first untried action, not the last
expand_from_front(arena, node_idx) ==
    LET node == At(arena, node_idx)
        n == Len(node.untried_actions)
    IN IF is_terminal(node) \/ n = 0
       THEN [ok |-> TRUE, arena |-> arena, idx |-> node_idx]
       ELSE LET stepped == step(node.state, node.untried_actions[1])
                popped == [arena EXCEPT ![node_idx + 1].untried_actions = Tail(@)]
                child_idx == Len(arena)
                child_node == Node_new(Some(node_idx), stepped.state,
                                       Some(node.untried_actions[1]))
            IN [ok |-> stepped.ok,
                arena |-> [Append(popped, child_node) EXCEPT
                             ![node_idx + 1].children = Append(@, child_idx)],
                idx |-> child_idx]

\* expand discarding the Result of step: the child is added whatever step returned
expand_ignoring_step_error(arena, node_idx) ==
    LET node == At(arena, node_idx)
        n == Len(node.untried_actions)
    IN IF is_terminal(node) \/ n = 0
       THEN [ok |-> TRUE, arena |-> arena, idx |-> node_idx]
       ELSE LET stepped == step(node.state, node.untried_actions[n])
                popped == [arena EXCEPT ![node_idx + 1].untried_actions =
                                            SubSeq(@, 1, n - 1)]
                child_idx == Len(arena)
                child_node == Node_new(Some(node_idx), stepped.state,
                                       Some(node.untried_actions[n]))
            IN [ok |-> TRUE,
                arena |-> [Append(popped, child_node) EXCEPT
                             ![node_idx + 1].children = Append(@, child_idx)],
                idx |-> child_idx]

\* expand linking every new child into the root's children
expand_child_under_root(arena, node_idx) ==
    LET node == At(arena, node_idx)
        n == Len(node.untried_actions)
    IN IF is_terminal(node) \/ n = 0
       THEN [ok |-> TRUE, arena |-> arena, idx |-> node_idx]
       ELSE LET stepped == step(node.state, node.untried_actions[n])
                popped == [arena EXCEPT ![node_idx + 1].untried_actions =
                                            SubSeq(@, 1, n - 1)]
                child_idx == Len(arena)
                child_node == Node_new(Some(node_idx), stepped.state,
                                       Some(node.untried_actions[n]))
            IN [ok |-> stepped.ok,
                arena |-> [Append(popped, child_node) EXCEPT
                             ![1].children = Append(@, child_idx)],
                idx |-> child_idx]

\* expand reading the last untried action without removing it
expand_without_pop(arena, node_idx) ==
    LET node == At(arena, node_idx)
        n == Len(node.untried_actions)
    IN IF is_terminal(node) \/ n = 0
       THEN [ok |-> TRUE, arena |-> arena, idx |-> node_idx]
       ELSE LET stepped == step(node.state, node.untried_actions[n])
                child_idx == Len(arena)
                child_node == Node_new(Some(node_idx), stepped.state,
                                       Some(node.untried_actions[n]))
            IN [ok |-> stepped.ok,
                arena |-> [Append(arena, child_node) EXCEPT
                             ![node_idx + 1].children = Append(@, child_idx)],
                idx |-> child_idx]

\* expand without its two guards: a terminal or exhausted node gets a child
\* that holds the node's own state
expand_past_exhausted(arena, node_idx) ==
    LET node == At(arena, node_idx)
        n == Len(node.untried_actions)
        child_idx == Len(arena)
    IN IF is_terminal(node) \/ n = 0
       THEN [ok |-> TRUE,
             arena |-> [Append(arena, Node_new(Some(node_idx), node.state, None))
                          EXCEPT ![node_idx + 1].children = Append(@, child_idx)],
             idx |-> child_idx]
       ELSE LET stepped == step(node.state, node.untried_actions[n])
                popped == [arena EXCEPT ![node_idx + 1].untried_actions =
                                            SubSeq(@, 1, n - 1)]
                child_node == Node_new(Some(node_idx), stepped.state,
                                       Some(node.untried_actions[n]))
            IN [ok |-> stepped.ok,
                arena |-> [Append(popped, child_node) EXCEPT
                             ![node_idx + 1].children = Append(@, child_idx)],
                idx |-> child_idx]

\* expand that reads the last untried action and leaves it in the list
expand_peeking(arena, node_idx) ==
    LET node == At(arena, node_idx)
    IN IF is_terminal(node) THEN [ok |-> TRUE, arena |-> arena, idx |-> node_idx]
       ELSE IF Len(node.untried_actions) = 0
            THEN [ok |-> TRUE, arena |-> arena, idx |-> node_idx]
            ELSE LET n == Len(node.untried_actions)
                     action == node.untried_actions[n]
                     stepped == step(node.state, action)
                     child_node == Node_new(Some(node_idx), stepped.state, Some(action))
                     child_idx == Len(arena)
                     pushed == Append(arena, child_node)
                 IN IF ~stepped.ok
                    THEN [ok |-> FALSE, arena |-> arena, idx |-> node_idx]
                    ELSE [ok |-> TRUE,
                          arena |-> [pushed EXCEPT ![node_idx + 1].children =
                                                       Append(@, child_idx)],
                          idx |-> child_idx]

expand(arena, node_idx) ==
    LET node == At(arena, node_idx)
    IN IF is_terminal(node) THEN [ok |-> TRUE, arena |-> arena, idx |-> node_idx]
       ELSE IF Len(node.untried_actions) = 0
            THEN [ok |-> TRUE, arena |-> arena, idx |-> node_idx]
            ELSE LET n == Len(node.untried_actions)
                     action == node.untried_actions[n]
                     popped == [arena EXCEPT ![node_idx + 1].untried_actions =
                                                 SubSeq(@, 1, n - 1)]
                     stepped == step(node.state, action)
                     child_node == Node_new(Some(node_idx), stepped.state, Some(action))
                     child_idx == Len(arena)
                     pushed == Append(popped, child_node)
                 IN IF ~stepped.ok
                    THEN [ok |-> FALSE, arena |-> popped, idx |-> node_idx]
                    ELSE [ok |-> TRUE,
                          arena |-> [pushed EXCEPT ![node_idx + 1].children =
                                                       Append(@, child_idx)],
                          idx |-> child_idx]

\* backup_reward crediting the player to move at the node, not the one who moved into it
backup_reward_for_mover(node, res) ==
    LET actor == current_player(node.state)
    IN IF res.tag = "Win" THEN (IF res.player = actor THEN 2 ELSE 0)
       ELSE 1

\* the reward one pass adds to a node for a Win or a Draw
backup_reward(node, res) ==
    LET actor == opponent(current_player(node.state))
    IN IF res.tag = "Win" THEN (IF res.player = actor THEN 2 ELSE 0)
       ELSE 1

\* backup_end_reward adding the absolute terminal reward
backup_end_reward_absolute(res, initial) == res.reward

\* the reward one pass adds to a node for End(reward)
backup_end_reward(res, initial) == res.reward - initial

RECURSIVE backup_from(_, _, _, _)
backup_from(arena, current, res, initial) ==
    IF ~IsSome(current) THEN arena
    ELSE LET idx == Unwrap(current)
             node == At(arena, idx)
             inc == IF res.tag = "End" THEN backup_end_reward(res, initial)
                    ELSE backup_reward(node, res)
         IN backup_from([arena EXCEPT ![idx + 1].visits = @ + 1,
                                      ![idx + 1].reward = @ + inc],
                        node.parent, res, initial)

\* backup that stops at the root's child: the walk follows node.parent first
backup_below_root(arena, node_idx, res, initial) ==
    IF node_idx = 0 THEN arena
    ELSE [backup_from(arena, Some(node_idx), res, initial) EXCEPT
            ![1] = At(arena, 0)]

\* backup that counts the expanded node before the walk and again in it
backup_leaf_twice(arena, node_idx, res, initial) ==
    backup_from([arena EXCEPT ![node_idx + 1].visits = @ + 1],
                Some(node_idx), res, initial)

\* backup that starts the walk at the parent: the expanded node is not credited
backup_skipping_leaf(arena, node_idx, res, initial) ==
    backup_from(arena, At(arena, node_idx).parent, res, initial)

backup(arena, node_idx, res, initial) ==
    backup_from(arena, Some(node_idx), res, initial)

\* best_action returning the action stored in the root
best_action_of_root(arena) ==
    LET root == At(arena, 0)
    IN IF Len(root.children) = 0 THEN [ok |-> FALSE, action |-> None]
       ELSE [ok |-> TRUE, action |-> root.action]

\* best_action ranking the children by average reward
best_action_by_reward(arena) ==
    LET root == At(arena, 0)
        keys == [k \in 1..Len(root.children) |->
                    uct(At(arena, root.children[k]), 1)]
    IN IF Len(root.children) = 0 THEN [ok |-> FALSE, action |-> None]
       ELSE [ok |-> TRUE, action |-> At(arena, root.children[max_by(keys)]).action]

\* Option<Action>, or a panic on the unwrap of the maximum of no children
best_action(arena) ==
    LET root == At(arena, 0)
        keys == [k \in 1..Len(root.children) |-> At(arena, root.children[k]).visits]
    IN IF Len(root.children) = 0 THEN [ok |-> FALSE, action |-> None]
       ELSE [ok |-> TRUE, action |-> At(arena, root.children[max_by(keys)]).action]

(***************************************************************************)
(* mcts.rs: Mcts (the TicTacToe engine); its expand is that of mcts2.rs.   *)
(* It calls the game through make_move, legal_moves, is_terminal and       *)
(* result, which game.rs names step, allowed_actions, is_terminal, result. *)
(***************************************************************************)
mcts_best_child(arena, node_idx, exploration2) ==
    LET node == At(arena, node_idx)
        keys == [k \in 1..Len(node.children) |->
                    ucb1(At(arena, node.children[k]), node.visits, exploration2)]
    IN IF Len(node.children) = 0 \/ ComparesNaN(keys)
       THEN [ok |-> FALSE, idx |-> node_idx]
       ELSE [ok |-> TRUE, idx |-> node.children[max_by(keys)]]

RECURSIVE mcts_select(_, _, _)
mcts_select(arena, current, exploration2) ==
    LET node == At(arena, current)
    IN IF is_terminal(node) THEN [ok |-> TRUE, idx |-> current]
       ELSE IF ~is_fully_expanded(node) THEN [ok |-> TRUE, idx |-> current]
       ELSE IF Len(node.children) = 0 THEN [ok |-> TRUE, idx |-> current]
       ELSE LET c == mcts_best_child(arena, current, exploration2)
            IN IF c.ok THEN mcts_select(arena, c.idx, exploration2) ELSE c

\* backpropagate_reward without the root case: the root is credited like a child
\* of a node where the opponent of root_player is to move
backpropagate_reward_root_as_child(arena, idx, res, root_player) ==
    IF ~IsSome(res) THEN 0
    ELSE IF Unwrap(res).tag = "Win"
         THEN LET node_player ==
                      IF idx = 0 THEN opponent(root_player)
                      ELSE current_player(At(arena, Unwrap(At(arena, idx).parent)).state)
              IN IF Unwrap(res).player = node_player THEN 2 ELSE 0
         ELSE 1

\* backpropagate_reward with the Draw arm falling into the 0.0 of the None arm
backpropagate_reward_draw_as_none(arena, idx, res, root_player) ==
    IF ~IsSome(res) THEN 0
    ELSE IF Unwrap(res).tag = "Win"
         THEN LET node_player ==
                      IF idx = 0 THEN root_player
                      ELSE current_player(At(arena, Unwrap(At(arena, idx).parent)).state)
              IN IF Unwrap(res).player = node_player THEN 2 ELSE 0
         ELSE 0

\* the reward one pass adds to the node at idx; res is an Option<GameResult>
backpropagate_reward(arena, idx, res, root_player) ==
    IF ~IsSome(res) THEN 0
    ELSE IF Unwrap(res).tag = "Win"
         THEN LET node_player ==
                      IF idx = 0 THEN root_player
                      ELSE current_player(At(arena, Unwrap(At(arena, idx).parent)).state)
              IN IF Unwrap(res).player = node_player THEN 2 ELSE 0
         ELSE 1

RECURSIVE backpropagate_from(_, _, _, _)
backpropagate_from(arena, current, res, root_player) ==
    IF ~IsSome(current) THEN arena
    ELSE LET idx == Unwrap(current)
             inc == backpropagate_reward(arena, idx, res, root_player)
         IN backpropagate_from([arena EXCEPT ![idx + 1].visits = @ + 1,
                                             ![idx + 1].reward = @ + inc],
                               At(arena, idx).parent, res, root_player)

backpropagate(arena, node_idx, res, root_player) ==
    backpropagate_from(arena, Some(node_idx), res, root_player)

mcts_best_action(arena, node_idx) ==
    LET node == At(arena, node_idx)
        keys == [k \in 1..Len(node.children) |-> At(arena, node.children[k]).visits]
    IN IF Len(node.children) = 0 THEN None
       ELSE At(arena, node.children[max_by(keys)]).action

(***************************************************************************)
(* The state: a caller that owns a game and an engine, and the engine's    *)
(* search in progress.                                                     *)
(***************************************************************************)
VARIABLES
    game,           \* the caller's game state
    cfg,            \* the engine as constructed: which engine, num_iters, exploration
    nodes,          \* the engine's arena
    pc,             \* where the caller is: idle, in search (iterate, simulate), done, panic
    iter,           \* iterations of the current search completed so far
    node_idx,       \* the node the current iteration expanded
    sim,            \* the state of the playout in progress
    initial_reward, \* current_reward of the root state at the start of the iteration
    ret,            \* what the last search returned
    prev_ret        \* Some(r) when an earlier search on the same game state returned r

vars == <<game, cfg, nodes, pc, iter, node_idx, sim, initial_reward, ret, prev_ret>>

ExplorationSquares == {0, 2}

Configs ==
    [engine : {"mcts2"}, num_iters : 0..MaxIters, exploration2 : {2}]
    \cup [engine : {"mcts"}, num_iters : 0..MaxIters, exploration2 : ExplorationSquares]

\* the state after construction, the caller holding a game of kind
InitWith(start) ==
    /\ cfg \in Configs
    /\ game = start
    /\ nodes = << >>
    /\ pc = "idle"
    /\ iter = 0
    /\ node_idx = 0
    /\ sim = game
    /\ initial_reward = 0
    /\ ret = None
    /\ prev_ret = None

Init == InitWith(TicTacToe_default)

\* the engines over the game whose step breaks the contract
InitFaulty == InitWith(Faulty_default)

\* the generic engine over the reward-accumulating game
InitScore == InitWith(Score_new) /\ cfg.engine = "mcts2"

\* the number of moves a game can still last
Free(s) ==
    CASE s.kind = "Score" -> ScoreTicks - s.tick
      [] s.kind = "Connect4" ->
             Cardinality({rc \in (0..(ROWS - 1)) \X (0..(COLS - 1)) :
                             ~IsSome(s.board[rc[1]][rc[2]])})
      [] OTHER -> Len(EmptyCells(s.board, 0))

\* the moves the caller chooses among while it sets a position up
SetupChoices(s) ==
    LET acts == allowed_actions(s)
        n == Len(acts)
    IN {acts[k] : k \in {j \in 1..n : j <= SetupWidth \/ j > n - SetupWidth}}

\* main.rs play_game: the human's move, game.step(pos)
CallerStep ==
    /\ pc = "idle"
    /\ \E a \in SetupChoices(game) :
         /\ step(game, a).ok
         /\ game' = step(game, a).state
    /\ pc' = "idle"
    /\ sim' = game'
    /\ ret' = None
    /\ prev_ret' = None
    /\ UNCHANGED <<cfg, nodes, iter, node_idx, initial_reward>>

\* search that pushes the root without clearing the arena of the earlier call
StartSearch_without_clear ==
    /\ Free(game) <= MaxFree
    /\ nodes' = Append(nodes, Node_new(None, game, None))
    /\ iter' = 0
    /\ pc' = "iterate"
    /\ ret' = None
    /\ UNCHANGED <<game, cfg, node_idx, sim, initial_reward>>

\* search, up to its loop: the arena is cleared and the root pushed
StartSearch ==
    /\ Free(game) <= MaxFree
    /\ nodes' = <<Node_new(None, game, None)>>
    /\ iter' = 0
    /\ pc' = "iterate"
    /\ ret' = None
    /\ UNCHANGED <<game, cfg, node_idx, sim, initial_reward>>

\* the caller calls search
Search ==
    /\ pc = "idle"
    /\ StartSearch
    /\ prev_ret' = None

\* the caller calls search once more on the state it has just searched
SearchAgain ==
    /\ pc = "done"
    /\ StartSearch
    /\ prev_ret' = Some(ret)

\* an iteration that expands the selected node by an untried action drawn at random
SelectExpand_random_untried ==
    /\ pc = "iterate"
    /\ iter < cfg.num_iters
    /\ initial_reward' = current_reward(At(nodes, 0).state)
    /\ LET sel == IF cfg.engine = "mcts2" THEN select(nodes)
                  ELSE mcts_select(nodes, 0, cfg.exploration2)
           node == At(nodes, sel.idx)
           n == Len(node.untried_actions)
       IN IF sel.ok
          THEN \E k \in 1..(IF is_terminal(node) \/ n = 0 THEN 1 ELSE n) :
                 LET drawn == IF is_terminal(node) \/ n = 0 THEN nodes
                              ELSE [nodes EXCEPT ![sel.idx + 1].untried_actions =
                                       SubSeq(@, 1, k - 1) \o SubSeq(@, k + 1, n)
                                       \o <<@[k]>>]
                     ex == expand(drawn, sel.idx)
                 IN /\ nodes' = ex.arena
                    /\ node_idx' = ex.idx
                    /\ sim' = At(ex.arena, ex.idx).state
                    /\ pc' = "simulate"
          ELSE /\ pc' = "panic"
               /\ UNCHANGED <<nodes, node_idx, sim>>
    /\ UNCHANGED <<game, cfg, iter, ret, prev_ret>>

\* one iteration of the loop up to the playout: select, expand, clone the state.
\* initial_reward is read by the End arm of backup alone (backup_end_reward).
SelectExpand ==
    /\ pc = "iterate"
    /\ iter < cfg.num_iters
    /\ initial_reward' = current_reward(At(nodes, 0).state)
    /\ LET sel == IF cfg.engine = "mcts2" THEN select(nodes)
                  ELSE mcts_select(nodes, 0, cfg.exploration2)
           ex == expand(nodes, sel.idx)
       IN IF sel.ok /\ ex.ok
          THEN /\ nodes' = ex.arena
               /\ node_idx' = ex.idx
               /\ sim' = At(ex.arena, ex.idx).state
               /\ pc' = "simulate"
          ELSE /\ pc' = "panic"
               /\ UNCHANGED <<nodes, node_idx, sim>>
    /\ UNCHANGED <<game, cfg, iter, ret, prev_ret>>

\* a playout turn that steps the caller's state, not a clone of the node's
SimulateStep_on_caller_state ==
    /\ pc = "simulate"
    /\ ~IsSome(result(sim))
    /\ LET actions == allowed_actions(sim)
       IN IF Len(actions) = 0
          THEN pc' = "panic" /\ sim' = sim /\ game' = game
          ELSE \E i \in 1..Len(actions) :
                 LET st == step(sim, actions[i])
                 IN IF st.ok THEN pc' = pc /\ sim' = st.state /\ game' = st.state
                    ELSE pc' = "panic" /\ sim' = sim /\ game' = game
    /\ UNCHANGED <<cfg, nodes, iter, node_idx, initial_reward, ret, prev_ret>>

\* one turn of the playout loop: a random legal action is applied
SimulateStep ==
    /\ pc = "simulate"
    /\ ~IsSome(result(sim))
    /\ LET actions == allowed_actions(sim)
       IN IF Len(actions) = 0
          THEN pc' = "panic" /\ sim' = sim
          ELSE \E i \in 1..Len(actions) :
                 LET st == step(sim, actions[i])
                 IN IF st.ok THEN pc' = pc /\ sim' = st.state
                    ELSE pc' = "panic" /\ sim' = sim
    /\ UNCHANGED <<game, cfg, nodes, iter, node_idx, initial_reward, ret, prev_ret>>

\* the playout has ended: its result is backpropagated
Backup ==
    /\ pc = "simulate"
    /\ IsSome(result(sim))
    /\ nodes' = IF cfg.engine = "mcts2"
                THEN backup(nodes, node_idx, Unwrap(result(sim)), initial_reward)
                ELSE backpropagate(nodes, node_idx, result(sim),
                                   current_player(At(nodes, 0).state))
    /\ iter' = iter + 1
    /\ pc' = "iterate"
    /\ UNCHANGED <<game, cfg, node_idx, sim, initial_reward, ret, prev_ret>>

\* the loop is over: search returns best_action
BestAction ==
    /\ pc = "iterate"
    /\ iter = cfg.num_iters
    /\ IF cfg.engine = "mcts2"
       THEN LET ba == best_action(nodes)
            IN IF ba.ok THEN pc' = "done" /\ ret' = ba.action
               ELSE pc' = "panic" /\ ret' = ret
       ELSE pc' = "done" /\ ret' = mcts_best_action(nodes, 0)
    /\ UNCHANGED <<game, cfg, nodes, iter, node_idx, sim, initial_reward, prev_ret>>

\* main.rs play_game: the agent's action is applied, game.step(action).unwrap()
Apply ==
    /\ pc = "done"
    /\ IsSome(ret)
    /\ LET st == step(game, Unwrap(ret))
       IN IF st.ok THEN pc' = "idle" /\ game' = st.state
          ELSE pc' = "panic" /\ game' = game
    /\ sim' = game'
    /\ ret' = None
    /\ prev_ret' = None
    /\ UNCHANGED <<cfg, nodes, iter, node_idx, initial_reward>>

Next ==
    \/ CallerStep
    \/ Search
    \/ SelectExpand
    \/ SimulateStep
    \/ Backup
    \/ BestAction
    \/ Apply

Spec == Init /\ [][Next]_vars

SpecScore == InitScore /\ [][Next]_vars

SpecFaulty == InitFaulty /\ [][Next]_vars

\* the caller may also repeat a search
NextRepeat ==
    \/ Next
    \/ SearchAgain

SpecRepeat == Init /\ [][NextRepeat]_vars

(***************************************************************************)
(* The games on their own: moves are made by game.step alone, with valid   *)
(* and invalid actions.  TicTacToe is played in full.  Connect4 is played  *)
(* freely near the empty board and near the full board, and in between     *)
(* along one reference game that ends in a draw and one move off it.       *)
(***************************************************************************)
ReferenceGame ==
    <<5, 6, 4, 5, 4, 6, 6, 3, 6, 4, 2, 2, 1, 3, 5, 4, 6, 1, 2, 2, 1,
      2, 0, 2, 4, 6, 3, 1, 0, 4, 3, 0, 1, 0, 1, 3, 3, 5, 5, 5, 0, 0>>

\* the state after the first k actions of moves, from Connect4::default
RECURSIVE Replay(_, _)
Replay(moves, k) ==
    IF k = 0 THEN Connect4_default
    ELSE step(Replay(moves, k - 1), moves[k]).state

ReferencePositions == [k \in 0..Len(ReferenceGame) |-> Replay(ReferenceGame, k)]

\* the number of pieces on a Connect4 board
Plies(s) == ROWS * COLS - Free(s)

\* a successful move may be made on s
PlayAllowed(s) ==
    \/ s.kind # "Connect4"
    \/ Plies(s) < C4FreePlies
    \/ Free(s) <= C4EndFree
    \/ s = ReferencePositions[Plies(s)]

\* main.rs play_game: game.step(pos) on the number read, game.step(action)
\* on the agent's action; an Err leaves the loop running
Play ==
    /\ pc = "idle"
    /\ \E pos \in 0..MaxPos :
         /\ step(game, pos).ok => PlayAllowed(game)
         /\ game' = step(game, pos).state
    /\ sim' = game'
    /\ UNCHANGED <<cfg, nodes, pc, iter, node_idx, initial_reward, ret, prev_ret>>

InitGames ==
    /\ InitWith(TicTacToe_default) \/ InitWith(Connect4_default)
    /\ cfg.engine = "mcts2"
    /\ cfg.num_iters = 0

NextGames == Play

SpecGames == InitGames /\ [][NextGames]_vars

(***************************************************************************)
(* Searches of the generic engine over both board games.  The TicTacToe   *)
(* position is set up by CallerStep, the Connect4 position by Play.        *)
(***************************************************************************)
InitConnect4 == InitWith(Connect4_default)

InitBoardGames == (Init \/ InitConnect4) /\ cfg.engine = "mcts2"

NextBoardGames ==
    \/ game.kind = "TicTacToe" /\ CallerStep
    \/ game.kind = "Connect4" /\ Play
    \/ Search
    \/ SelectExpand
    \/ SimulateStep
    \/ Backup
    \/ BestAction
    \/ Apply

SpecBoardGames == InitBoardGames /\ [][NextBoardGames]_vars

(***************************************************************************)
(* main.rs play_game: the loop in which a human (X) and the agent (O) take *)
(* turns.  pc is "idle" at the head of the loop and "over" after the      *)
(* break.  A line typed by the human is a sequence of characters.  The     *)
(* agent searches with the generic engine and cfg.num_iters iterations.    *)
(***************************************************************************)
Digits == <<"0", "1", "2", "3", "4", "5", "6", "7", "8", "9">>

\* the characters the lines explored are made of
Chars == Range(Digits) \cup {"x"}

\* the longest line explored
MaxLine == 1

Lines == UNION {[1..n -> Chars] : n \in 0..MaxLine}

DigitValue(c) == (CHOOSE d \in 1..Len(Digits) : Digits[d] = c) - 1

\* str::parse::<usize> on the trimmed line: decimal digits only, at least one
RECURSIVE ParseDigits(_, _)
ParseDigits(line, acc) ==
    IF Len(line) = 0 THEN acc
    ELSE ParseDigits(Tail(line), 10 * acc + DigitValue(Head(line)))

parse_usize(line) ==
    IF Len(line) = 0 \/ \E k \in 1..Len(line) : line[k] \notin Range(Digits)
    THEN None
    ELSE Some(ParseDigits(line, 0))

\* parse_usize of each line explored, computed once
Parsed == [line \in Lines |-> parse_usize(line)]

\* the numbers the lines explored parse to
Numbers == {Unwrap(Parsed[line]) : line \in {l \in Lines : IsSome(Parsed[l])}}

\* a loop body without the break
loop_end_without_break(s) == "idle"

\* the end of the loop body: break when the game has a result
loop_end(s) == IF IsSome(result(s)) THEN "over" ELSE "idle"

\* the Player::X arm on a rejected input counting the turn as taken
human_turn_passing_on_error(s, line) ==
    LET parsed == Parsed[line]
    IN IF IsSome(parsed)
       THEN LET st == step(s, Unwrap(parsed))
            IN IF st.ok THEN st.state
               ELSE [st.state EXCEPT !.current_player = opponent(@)]
       ELSE s

\* the Player::X arm: the game after the line read has been handled
human_turn(s, line) ==
    LET parsed == Parsed[line]
    IN IF IsSome(parsed) THEN step(s, Unwrap(parsed)).state ELSE s

\* the successful moves explored from s: on TicTacToe the first and last
\* SetupWidth allowed actions, on Connect4 those PlayAllowed admits
MoveExplored(s, action) ==
    /\ PlayAllowed(s)
    /\ s.kind = "TicTacToe" => action \in SetupChoices(s)

\* the lines read on s: every line but those whose move is not explored
LinesExplored(s) ==
    LET skipped == {pos \in Numbers : step(s, pos).ok /\ ~MoveExplored(s, pos)}
    IN {line \in Lines : IsSome(Parsed[line]) => Unwrap(Parsed[line]) \notin skipped}

\* one pass of the loop with X to move
HumanTurn ==
    /\ pc = "idle"
    /\ current_player(game) = "X"
    /\ game' \in {human_turn(game, line) : line \in LinesExplored(game)}
    /\ pc' = loop_end(game')
    /\ sim' = game'
    /\ UNCHANGED <<cfg, nodes, iter, node_idx, initial_reward, ret, prev_ret>>

\* one pass of the loop with O to move, up to the loop of search
AgentSearch ==
    /\ current_player(game) = "O"
    /\ Search

\* the rest of that pass: the action search returned is applied
AgentStep ==
    /\ pc = "done"
    /\ IF IsSome(ret)
       THEN LET st == step(game, Unwrap(ret))
            IN IF st.ok THEN game' = st.state /\ pc' = loop_end(st.state)
               ELSE game' = game /\ pc' = "panic"
       ELSE game' = game /\ pc' = loop_end(game)
    /\ sim' = game'
    /\ UNCHANGED <<cfg, nodes, iter, node_idx, initial_reward, ret, prev_ret>>

\* one pass of the loop with O to move on a position with more than MaxFree
\* free cells, whose search is not explored: it is taken to return one of
\* the allowed actions, which is then applied
AgentTurnUnsearched ==
    /\ pc = "idle"
    /\ current_player(game) = "O"
    /\ Free(game) > MaxFree
    /\ \E action \in Range(allowed_actions(game)) :
         LET st == step(game, action)
         IN /\ MoveExplored(game, action)
            /\ IF st.ok THEN game' = st.state /\ pc' = loop_end(st.state)
               ELSE game' = game /\ pc' = "panic"
    /\ sim' = game'
    /\ UNCHANGED <<cfg, nodes, iter, node_idx, initial_reward, ret, prev_ret>>

InitPlay ==
    /\ Init \/ InitConnect4
    /\ cfg.engine = "mcts2"
    /\ cfg.num_iters = MaxIters

NextPlay ==
    \/ HumanTurn
    \/ AgentSearch
    \/ SelectExpand
    \/ SimulateStep
    \/ Backup
    \/ BestAction
    \/ AgentStep
    \/ AgentTurnUnsearched

SpecPlay == InitPlay /\ [][NextPlay]_vars

(***************************************************************************)
(* game/tetris.rs: Tetris.  The grid is the array of the source, indexed   *)
(* row * NUM_COLS + col from 0.  Rewards are counted in hundredths.  The   *)
(* generator seeded in new() is the sequence of bags its draws will yield  *)
(* to the calls of refill_and_shuffle still to come.  The fields that are  *)
(* only written or only rendered (score, ep_return, count_combos, the      *)
(* atn_count_* and tetromino_counts) are left out.                         *)
(***************************************************************************)
NUM_ROWS == 20
NUM_COLS == 10
MAX_TICKS == 10000
INITIAL_TICKS_PER_FALL == 6
LINES_PER_LEVEL == 10
NUM_TETROMINOES == 7
NUM_ROTATIONS == 4
DECK_SIZE == 2 * NUM_TETROMINOES

REWARD_HARD_DROP == 2
REWARD_ROTATE == 1
REWARD_INVALID_ACTION == 0
REWARD_COMBO == <<0, 10, 30, 50, 100>>

\* enum Action
NoOp == 0
Left == 1
Right == 2
Rotate == 3
SoftDrop == 4
HardDrop == 5
Hold == 6

\* impl From<u8> for Action, after the cast of the trait's usize to u8
Action_from(value) ==
    LET byte == value % 256
    IN IF byte \in NoOp..Hold THEN byte ELSE NoOp

TETROMINOES ==
    << << <<<<1, 1, 0, 0>>, <<1, 1, 0, 0>>, <<0, 0, 0, 0>>, <<0, 0, 0, 0>>>>,
          <<<<1, 1, 0, 0>>, <<1, 1, 0, 0>>, <<0, 0, 0, 0>>, <<0, 0, 0, 0>>>>,
          <<<<1, 1, 0, 0>>, <<1, 1, 0, 0>>, <<0, 0, 0, 0>>, <<0, 0, 0, 0>>>>,
          <<<<1, 1, 0, 0>>, <<1, 1, 0, 0>>, <<0, 0, 0, 0>>, <<0, 0, 0, 0>>>> >>,
       << <<<<1, 0, 0, 0>>, <<1, 0, 0, 0>>, <<1, 0, 0, 0>>, <<1, 0, 0, 0>>>>,
          <<<<1, 1, 1, 1>>, <<0, 0, 0, 0>>, <<0, 0, 0, 0>>, <<0, 0, 0, 0>>>>,
          <<<<1, 0, 0, 0>>, <<1, 0, 0, 0>>, <<1, 0, 0, 0>>, <<1, 0, 0, 0>>>>,
          <<<<1, 1, 1, 1>>, <<0, 0, 0, 0>>, <<0, 0, 0, 0>>, <<0, 0, 0, 0>>>> >>,
       << <<<<1, 0, 0, 0>>, <<1, 1, 0, 0>>, <<0, 1, 0, 0>>, <<0, 0, 0, 0>>>>,
          <<<<0, 1, 1, 0>>, <<1, 1, 0, 0>>, <<0, 0, 0, 0>>, <<0, 0, 0, 0>>>>,
          <<<<1, 0, 0, 0>>, <<1, 1, 0, 0>>, <<0, 1, 0, 0>>, <<0, 0, 0, 0>>>>,
          <<<<0, 1, 1, 0>>, <<1, 1, 0, 0>>, <<0, 0, 0, 0>>, <<0, 0, 0, 0>>>> >>,
       << <<<<0, 1, 0, 0>>, <<1, 1, 0, 0>>, <<1, 0, 0, 0>>, <<0, 0, 0, 0>>>>,
          <<<<1, 1, 0, 0>>, <<0, 1, 1, 0>>, <<0, 0, 0, 0>>, <<0, 0, 0, 0>>>>,
          <<<<0, 1, 0, 0>>, <<1, 1, 0, 0>>, <<1, 0, 0, 0>>, <<0, 0, 0, 0>>>>,
          <<<<1, 1, 0, 0>>, <<0, 1, 1, 0>>, <<0, 0, 0, 0>>, <<0, 0, 0, 0>>>> >>,
       << <<<<0, 1, 0, 0>>, <<1, 1, 0, 0>>, <<0, 1, 0, 0>>, <<0, 0, 0, 0>>>>,
          <<<<0, 1, 0, 0>>, <<1, 1, 1, 0>>, <<0, 0, 0, 0>>, <<0, 0, 0, 0>>>>,
          <<<<1, 0, 0, 0>>, <<1, 1, 0, 0>>, <<1, 0, 0, 0>>, <<0, 0, 0, 0>>>>,
          <<<<1, 1, 1, 0>>, <<0, 1, 0, 0>>, <<0, 0, 0, 0>>, <<0, 0, 0, 0>>>> >>,
       << <<<<1, 0, 0, 0>>, <<1, 0, 0, 0>>, <<1, 1, 0, 0>>, <<0, 0, 0, 0>>>>,
          <<<<1, 1, 1, 0>>, <<1, 0, 0, 0>>, <<0, 0, 0, 0>>, <<0, 0, 0, 0>>>>,
          <<<<1, 1, 0, 0>>, <<0, 1, 0, 0>>, <<0, 1, 0, 0>>, <<0, 0, 0, 0>>>>,
          <<<<0, 0, 1, 0>>, <<1, 1, 1, 0>>, <<0, 0, 0, 0>>, <<0, 0, 0, 0>>>> >>,
       << <<<<0, 1, 0, 0>>, <<0, 1, 0, 0>>, <<1, 1, 0, 0>>, <<0, 0, 0, 0>>>>,
          <<<<1, 0, 0, 0>>, <<1, 1, 1, 0>>, <<0, 0, 0, 0>>, <<0, 0, 0, 0>>>>,
          <<<<1, 1, 0, 0>>, <<1, 0, 0, 0>>, <<1, 0, 0, 0>>, <<0, 0, 0, 0>>>>,
          <<<<1, 1, 1, 0>>, <<0, 0, 1, 0>>, <<0, 0, 0, 0>>, <<0, 0, 0, 0>>>> >> >>

TETROMINO_FILL_COLS ==
    <<<<2, 2, 2, 2>>, <<1, 4, 1, 4>>, <<2, 3, 2, 3>>, <<2, 3, 2, 3>>,
      <<2, 3, 2, 3>>, <<2, 3, 2, 3>>, <<2, 3, 2, 3>>>>

TETROMINO_FILL_ROWS ==
    <<<<2, 2, 2, 2>>, <<4, 1, 4, 1>>, <<3, 2, 3, 2>>, <<3, 2, 3, 2>>,
      <<3, 2, 3, 2>>, <<3, 2, 3, 2>>, <<3, 2, 3, 2>>>>

\* the tables of the source are indexed from 0
FillCols(t, rot) == TETROMINO_FILL_COLS[t + 1][rot + 1]

FillRows(t, rot) == TETROMINO_FILL_ROWS[t + 1][rot + 1]

Filled(t, rot, r, c) == TETROMINOES[t + 1][rot + 1][r + 1][c + 1] = 1

\* the loop the can_* functions share: no filled cell of tetromino t in
\* rotation rot, its corner at (row, col), lies on an occupied cell of grid
fits(grid, t, rot, row, col) ==
    \A c \in 0..(FillCols(t, rot) - 1) :
        \A r \in 0..(FillRows(t, rot) - 1) :
            ~(grid[(r + row) * NUM_COLS + c + col] # 0 /\ Filled(t, rot, r, c))

\* the widest spread of the draws of a shuffle that is explored
ShuffleWidth == 0

\* the number of bags the generator yields that is explored
ShuffleTape == 6

\* the number of steps of an episode that is explored
TetrisSteps == 8

\* the draws rng.random_range(0..=i) of one shuffle, for i from
\* NUM_TETROMINOES - 1 down to 1
ShuffleDraws ==
    {d \in [1..(NUM_TETROMINOES - 1) -> 0..(NUM_TETROMINOES - 1)] :
        \A i \in 1..(NUM_TETROMINOES - 1) : d[i] <= i /\ d[i] >= i - ShuffleWidth}

\* the Fisher-Yates loop from index i down to 1 on array (a sequence holding
\* index k at position k + 1)
RECURSIVE FisherYates(_, _, _)
FisherYates(array, draws, i) ==
    IF i < 1 THEN array
    ELSE FisherYates([array EXCEPT ![i + 1] = array[draws[i] + 1],
                                   ![draws[i] + 1] = array[i + 1]],
                     draws, i - 1)

\* the bags refill_and_shuffle can leave in the slice it is given
Bags ==
    {FisherYates([k \in 1..NUM_TETROMINOES |-> k - 1], d, NUM_TETROMINOES - 1) :
        d \in ShuffleDraws}

\* refill_and_shuffle on the first (bag = 0) or second (bag = 1) half of the deck
refill_and_shuffle(s, bag) ==
    [s EXCEPT !.tetromino_deck =
                  [k \in 1..DECK_SIZE |->
                      IF (k - 1) \div NUM_TETROMINOES = bag
                      THEN Head(s.rng)[k - bag * NUM_TETROMINOES]
                      ELSE @[k]],
              !.rng = Tail(@)]

initialize_deck(s) ==
    LET first == refill_and_shuffle(s, 0)
        second == refill_and_shuffle(first, 1)
    IN [second EXCEPT !.cur_position_in_deck = 0,
                      !.cur_tetromino = second.tetromino_deck[1]]

spawn_new_tetromino(s) ==
    LET pos == (s.cur_position_in_deck + 1) % DECK_SIZE
        drawn == [s EXCEPT !.cur_position_in_deck = pos,
                           !.cur_tetromino = s.tetromino_deck[pos + 1],
                           !.cur_tetromino_rot = 0]
        refilled == IF pos = 0 THEN refill_and_shuffle(drawn, 1)
                    ELSE IF pos = NUM_TETROMINOES THEN refill_and_shuffle(drawn, 0)
                    ELSE drawn
    IN [refilled EXCEPT !.cur_tetromino_col = NUM_COLS \div 2,
                        !.cur_tetromino_row = 0,
                        !.tick_fall = 0]

can_spawn_new_tetromino(s) ==
    LET next_pos == (s.cur_position_in_deck + 1) % DECK_SIZE
        next_tetromino == s.tetromino_deck[next_pos + 1]
    IN fits(s.grid, next_tetromino, 0, 0, NUM_COLS \div 2)

can_soft_drop(s) ==
    IF s.cur_tetromino_row = NUM_ROWS - FillRows(s.cur_tetromino, s.cur_tetromino_rot)
    THEN FALSE
    ELSE fits(s.grid, s.cur_tetromino, s.cur_tetromino_rot,
              s.cur_tetromino_row + 1, s.cur_tetromino_col)

can_go_left(s) ==
    IF s.cur_tetromino_col = 0 THEN FALSE
    ELSE fits(s.grid, s.cur_tetromino, s.cur_tetromino_rot,
              s.cur_tetromino_row, s.cur_tetromino_col - 1)

can_go_right(s) ==
    IF s.cur_tetromino_col = NUM_COLS - FillCols(s.cur_tetromino, s.cur_tetromino_rot)
    THEN FALSE
    ELSE fits(s.grid, s.cur_tetromino, s.cur_tetromino_rot,
              s.cur_tetromino_row, s.cur_tetromino_col + 1)

can_hold(s) ==
    IF ~s.can_swap THEN FALSE
    ELSE IF ~IsSome(s.hold_tetromino) THEN TRUE
    ELSE LET held == Unwrap(s.hold_tetromino)
             held_cols == FillCols(held, s.cur_tetromino_rot)
             held_rows == FillRows(held, s.cur_tetromino_rot)
         IN IF s.cur_tetromino_col + held_cols > NUM_COLS THEN FALSE
            ELSE IF s.cur_tetromino_row + held_rows > NUM_ROWS THEN FALSE
            ELSE fits(s.grid, held, s.cur_tetromino_rot,
                      s.cur_tetromino_row, s.cur_tetromino_col)

can_rotate(s) ==
    LET next_rot == (s.cur_tetromino_rot + 1) % NUM_ROTATIONS
    IN IF s.cur_tetromino_col > NUM_COLS - FillCols(s.cur_tetromino, next_rot)
       THEN FALSE
       ELSE IF s.cur_tetromino_row > NUM_ROWS - FillRows(s.cur_tetromino, next_rot)
       THEN FALSE
       ELSE fits(s.grid, s.cur_tetromino, next_rot,
                 s.cur_tetromino_row, s.cur_tetromino_col)

is_full_row(grid, row) ==
    \A c \in 0..(NUM_COLS - 1) : grid[row * NUM_COLS + c] # 0

clear_row(grid, row) ==
    [i \in DOMAIN grid |->
        IF i \div NUM_COLS > row THEN grid[i]
        ELSE IF i \div NUM_COLS = 0 THEN 0
        ELSE grid[i - NUM_COLS]]

EmptyGrid == [i \in 0..(NUM_ROWS * NUM_COLS - 1) |-> 0]

Tetris_reset(s) ==
    spawn_new_tetromino(
        initialize_deck([s EXCEPT !.hold_tetromino = None,
                                  !.tick = 0,
                                  !.game_level = 1,
                                  !.ticks_per_fall = INITIAL_TICKS_PER_FALL,
                                  !.tick_fall = 0,
                                  !.can_swap = TRUE,
                                  !.lines_deleted = 0,
                                  !.grid = EmptyGrid]))

\* Tetris::new() with a generator that will yield the bags of rng
Tetris_new(rng) ==
    Tetris_reset([kind |-> "Tetris",
                  rewards |-> 0,
                  is_terminal |-> FALSE,
                  grid |-> EmptyGrid,
                  rng |-> rng,
                  tick |-> 0,
                  tick_fall |-> 0,
                  ticks_per_fall |-> INITIAL_TICKS_PER_FALL,
                  can_swap |-> TRUE,
                  tetromino_deck |-> [k \in 1..DECK_SIZE |-> 0],
                  hold_tetromino |-> None,
                  cur_position_in_deck |-> 0,
                  cur_tetromino |-> 0,
                  cur_tetromino_row |-> 0,
                  cur_tetromino_col |-> 0,
                  cur_tetromino_rot |-> 0,
                  lines_deleted |-> 0,
                  game_level |-> 1])

\* the loop of place_tetromino that deletes the complete rows: passes are
\* the iterations left; the grid and the number of lines deleted
RECURSIVE delete_rows(_, _, _, _)
delete_rows(grid, row_to_check, passes, lines_deleted) ==
    IF passes = 0 THEN [grid |-> grid, lines_deleted |-> lines_deleted]
    ELSE IF is_full_row(grid, row_to_check)
         THEN delete_rows(clear_row(grid, row_to_check), row_to_check,
                          passes - 1, lines_deleted + 1)
         ELSE delete_rows(grid,
                          IF row_to_check = 0 THEN 0 ELSE row_to_check - 1,
                          passes - 1, lines_deleted)

Max(a, b) == IF a >= b THEN a ELSE b

place_tetromino(s) ==
    LET t == s.cur_tetromino
        rot == s.cur_tetromino_rot
        row_to_check == s.cur_tetromino_row + FillRows(t, rot) - 1
        filled ==
            [i \in DOMAIN s.grid |->
                LET r == (i \div NUM_COLS) - s.cur_tetromino_row
                    c == (i % NUM_COLS) - s.cur_tetromino_col
                IN IF /\ r \in 0..(FillRows(t, rot) - 1)
                      /\ c \in 0..(FillCols(t, rot) - 1)
                      /\ Filled(t, rot, r, c)
                   THEN t + 1
                   ELSE s.grid[i]]
        deleted == delete_rows(filled, row_to_check, FillRows(t, rot), 0)
        lines == deleted.lines_deleted
        total == s.lines_deleted + lines
        level == 1 + total \div LINES_PER_LEVEL
        scored ==
            IF lines > 0
            THEN [s EXCEPT !.can_swap = TRUE,
                           !.grid = deleted.grid,
                           !.lines_deleted = total,
                           !.rewards = @ + REWARD_COMBO[lines + 1],
                           !.game_level = level,
                           !.ticks_per_fall =
                               Max(INITIAL_TICKS_PER_FALL - (level \div 4), 3)]
            ELSE [s EXCEPT !.can_swap = TRUE, !.grid = deleted.grid]
    IN IF can_spawn_new_tetromino(scored) THEN spawn_new_tetromino(scored)
       ELSE [scored EXCEPT !.is_terminal = TRUE]

\* the HardDrop loop: the tetromino falls while it can, rewarded per row
RECURSIVE hard_drop(_)
hard_drop(s) ==
    IF can_soft_drop(s)
    THEN hard_drop([s EXCEPT !.cur_tetromino_row = @ + 1,
                             !.rewards = @ + REWARD_HARD_DROP])
    ELSE s

\* the match of step on the action
Tetris_act(s, action) ==
    CASE action = Left ->
             IF can_go_left(s) THEN [s EXCEPT !.cur_tetromino_col = @ - 1]
             ELSE [s EXCEPT !.rewards = @ + REWARD_INVALID_ACTION]
      [] action = Right ->
             IF can_go_right(s) THEN [s EXCEPT !.cur_tetromino_col = @ + 1]
             ELSE [s EXCEPT !.rewards = @ + REWARD_INVALID_ACTION]
      [] action = Rotate ->
             IF can_rotate(s)
             THEN [s EXCEPT !.cur_tetromino_rot = (@ + 1) % NUM_ROTATIONS,
                            !.rewards = @ + REWARD_ROTATE]
             ELSE [s EXCEPT !.rewards = @ + REWARD_INVALID_ACTION]
      [] action = SoftDrop ->
             IF can_soft_drop(s) THEN [s EXCEPT !.cur_tetromino_row = @ + 1]
             ELSE [s EXCEPT !.rewards = @ + REWARD_INVALID_ACTION]
      [] action = Hold ->
             IF can_hold(s)
             THEN LET t1 == s.cur_tetromino
                  IN IF ~IsSome(s.hold_tetromino)
                     THEN [spawn_new_tetromino(s) EXCEPT
                             !.hold_tetromino = Some(t1),
                             !.can_swap = FALSE]
                     ELSE LET t2 == Unwrap(s.hold_tetromino)
                          IN [s EXCEPT
                                !.cur_tetromino = t2,
                                !.tetromino_deck[s.cur_position_in_deck + 1] = t2,
                                !.hold_tetromino = Some(t1),
                                !.can_swap = FALSE,
                                !.cur_tetromino_rot = 0,
                                !.cur_tetromino_col = NUM_COLS \div 2,
                                !.cur_tetromino_row = 0,
                                !.tick_fall = 0]
             ELSE [s EXCEPT !.rewards = @ + REWARD_INVALID_ACTION]
      [] action = HardDrop -> place_tetromino(hard_drop(s))
      [] OTHER -> s

\* Tetris::step (the inherent method)
Tetris_step_action(s, action) ==
    LET ticked == [s EXCEPT !.is_terminal = FALSE,
                            !.rewards = 0,
                            !.tick = @ + 1,
                            !.tick_fall = @ + 1]
        acted == Tetris_act(ticked, action)
        fallen ==
            IF acted.tick_fall >= acted.ticks_per_fall
            THEN LET due == [acted EXCEPT !.tick_fall = 0]
                 IN IF can_soft_drop(due)
                    THEN [due EXCEPT !.cur_tetromino_row = @ + 1]
                    ELSE place_tetromino(due)
            ELSE acted
    IN IF fallen.is_terminal \/ fallen.tick >= MAX_TICKS
       THEN Tetris_reset(fallen)
       ELSE fallen

\* impl Game for Tetris
Tetris_result(s) == IF s.is_terminal THEN Some(End(s.rewards)) ELSE None

Tetris_allowed_actions(s) ==
    <<NoOp>>
    \o (IF can_go_left(s) THEN <<Left>> ELSE << >>)
    \o (IF can_go_right(s) THEN <<Right>> ELSE << >>)
    \o (IF can_rotate(s) THEN <<Rotate>> ELSE << >>)
    \o (IF can_soft_drop(s) THEN <<SoftDrop>> ELSE << >>)
    \o (IF can_spawn_new_tetromino(s) THEN <<HardDrop>> ELSE << >>)
    \o (IF can_hold(s) THEN <<Hold>> ELSE << >>)

Tetris_step(s, action) ==
    [ok |-> TRUE, state |-> Tetris_step_action(s, Action_from(action))]

\* the most calls of refill_and_shuffle one step makes: one in a spawn that
\* changes bag, two in the reset that can follow
ShufflesPerStep == 3

\* the numbers passed to step: the actions and one value that is none
TetrisInputs == NoOp..(Hold + 1)

InitTetris ==
    /\ cfg \in Configs
    /\ cfg.engine = "mcts2"
    /\ cfg.num_iters = 0
    /\ \E rng \in [1..ShuffleTape -> Bags] : game = Tetris_new(rng)
    /\ nodes = << >>
    /\ pc = "idle"
    /\ iter = 0
    /\ node_idx = 0
    /\ sim = game
    /\ initial_reward = 0
    /\ ret = None
    /\ prev_ret = None

\* game.step(action) on a Tetris
TetrisStep ==
    /\ pc = "idle"
    /\ game.tick < TetrisSteps
    /\ Len(game.rng) >= ShufflesPerStep
    /\ \E action \in TetrisInputs : game' = Tetris_step(game, action).state
    /\ sim' = game'
    /\ UNCHANGED <<cfg, nodes, pc, iter, node_idx, initial_reward, ret, prev_ret>>

NextTetris == TetrisStep

SpecTetris == InitTetris /\ [][NextTetris]_vars

(***************************************************************************)
(* Vocabulary of the properties.                                           *)
(***************************************************************************)
Root == At(nodes, 0)

RootChildren == Range(Root.children)

RECURSIVE SumVisits(_, _)
SumVisits(arena, children) ==
    IF Len(children) = 0 THEN 0
    ELSE At(arena, children[1]).visits + SumVisits(arena, Tail(children))

\* the arena indices from idx up the parent links to the root
RECURSIVE PathToRoot(_, _)
PathToRoot(arena, idx) ==
    LET parent == At(arena, idx).parent
    IN IF IsSome(parent) THEN {idx} \cup PathToRoot(arena, Unwrap(parent)) ELSE {idx}

\* the state search was called on is non-terminal and has a legal action
Searchable(s) == ~IsSome(result(s)) /\ Len(allowed_actions(s)) >= 1

\* a search is in progress or has ended (the arena's root is the state searched)
InSearch == pc \in {"iterate", "simulate", "done", "panic"}

\* this step is the backpropagation of a playout that ended in res
BackupOf(res) == pc = "simulate" /\ pc' = "iterate" /\ result(sim) = Some(res)

\* the reward the step adds to the node at idx
Increment(idx) == At(nodes', idx).reward - At(nodes, idx).reward

(***************************************************************************)
(* C1: on a non-terminal state with at least one legal action and with     *)
(* N >= 1 iterations, search does not panic and returns Some(a) with a one *)
(* of allowed_actions(state).                                              *)
(***************************************************************************)
C1_SearchReturnsLegalAction ==
    (InSearch /\ Searchable(game) /\ cfg.num_iters >= 1) =>
        /\ pc # "panic"
        /\ pc = "done" => /\ IsSome(ret)
                           /\ Unwrap(ret) \in Range(allowed_actions(game))

C1_Witness ==
    /\ pc = "done"
    /\ Searchable(game)
    /\ cfg.num_iters >= 1
    /\ IsSome(ret)
    /\ Len(allowed_actions(game)) >= 2

(***************************************************************************)
(* C2: whenever the root ends the search with no children (terminal root,  *)
(* or zero iterations), search returns None as a normal value: it does not *)
(* panic.                                                                  *)
(***************************************************************************)
C2_NoneWithoutChildren ==
    (pc \in {"done", "panic"} /\ Len(Root.children) = 0) =>
        (pc = "done" /\ ret = None)

(***************************************************************************)
(* C3: the action search returns is the action of a root child whose       *)
(* visits are maximal among the root's children.                           *)
(***************************************************************************)
C3_BestActionMostVisited ==
    (pc = "done" /\ Len(Root.children) > 0) =>
        \E c \in RootChildren :
            /\ ret = At(nodes, c).action
            /\ \A d \in RootChildren : At(nodes, d).visits <= At(nodes, c).visits

\* the returned child is the most visited and not the one of highest average reward
C3_Witness ==
    /\ pc = "done"
    /\ \E c \in RootChildren :
         /\ ret = At(nodes, c).action
         /\ \E d \in RootChildren :
              /\ At(nodes, d).visits < At(nodes, c).visits
              /\ At(nodes, d).reward * At(nodes, c).visits
                     >= At(nodes, c).reward * At(nodes, d).visits

(***************************************************************************)
(* C4: on a state with exactly one legal action a, search returns Some(a)  *)
(* for every N >= 1.                                                       *)
(***************************************************************************)
C4_SingleActionReturned ==
    (InSearch /\ Len(allowed_actions(game)) = 1 /\ cfg.num_iters >= 1) =>
        /\ pc # "panic"
        /\ pc = "done" => ret = Some(allowed_actions(game)[1])

C4_Witness ==
    /\ pc = "done"
    /\ Len(allowed_actions(game)) = 1
    /\ cfg.num_iters = 1
    /\ ret = Some(allowed_actions(game)[1])

(***************************************************************************)
(* C5: after N iterations root.visits = N and the visits of the root's     *)
(* children sum to at most N.                                              *)
(***************************************************************************)
C5_RootVisitsCountIterations ==
    (pc \in {"iterate", "done"}) =>
        /\ Root.visits = iter
        /\ SumVisits(nodes, Root.children) <= iter
        /\ pc = "done" => iter = cfg.num_iters

C5_Witness ==
    /\ pc = "done"
    /\ iter >= 2
    /\ Root.visits = cfg.num_iters
    /\ SumVisits(nodes, Root.children) >= 2

\* the parent index of a node that is not the root
ParentOf(arena, idx) == Unwrap(At(arena, idx).parent)

(***************************************************************************)
(* C6: for a Win(winner) outcome, backpropagation adds 1.0 to a non-root   *)
(* node of the path if and only if winner is the player to move at the     *)
(* node's parent, and 0.0 otherwise.                                       *)
(***************************************************************************)
C6_WinCreditsMoverIntoNode ==
    [][\A p \in Player :
         BackupOf(Win(p)) =>
            \A idx \in PathToRoot(nodes, node_idx) \ {0} :
                Increment(idx) =
                    IF p = current_player(At(nodes, ParentOf(nodes, idx)).state)
                    THEN 2 ELSE 0]_vars

\* two passes, each through a new child of the root: a won playout credited one
\* child 1.0 and a lost one credited the other 0.0
C6_Witness ==
    /\ pc = "iterate"
    /\ iter = 2
    /\ Len(Root.children) = 2
    /\ \E c, d \in RootChildren :
         /\ At(nodes, c).visits = 1 /\ At(nodes, c).reward = 2
         /\ At(nodes, d).visits = 1 /\ At(nodes, d).reward = 0
    /\ \E p \in Player : result(sim) = Some(Win(p))

(***************************************************************************)
(* C7 as claimed: for a Win(winner) outcome, backpropagation credits the   *)
(* root 1.0 if and only if winner is the opponent of the root state's      *)
(* current player, and 0.0 otherwise.                                      *)
(***************************************************************************)
C7_RootCreditsOpponent ==
    [][\A p \in Player :
         BackupOf(Win(p)) =>
            Increment(0) =
                IF p = opponent(current_player(Root.state)) THEN 2 ELSE 0]_vars

(***************************************************************************)
(* C7 amended: for a Win(winner) outcome, the generic engine (mcts2.rs)    *)
(* credits the root 1.0 if and only if winner is the opponent of the root  *)
(* state's current player; the TicTacToe engine (mcts.rs) credits the root *)
(* 1.0 if and only if winner is the root state's current player; 0.0       *)
(* otherwise.                                                              *)
(***************************************************************************)
C7_RootCreditByEngine ==
    [][\A p \in Player :
         BackupOf(Win(p)) =>
            LET credited == IF cfg.engine = "mcts2"
                            THEN opponent(current_player(Root.state))
                            ELSE current_player(Root.state)
            IN Increment(0) = IF p = credited THEN 2 ELSE 0]_vars

\* after one pass the TicTacToe engine has credited its root for the win of the
\* root state's current player
C7_Witness ==
    /\ pc = "iterate"
    /\ iter = 1
    /\ Root.reward = 2
    /\ cfg.engine = "mcts"
    /\ result(sim) = Some(Win(current_player(Root.state)))

(***************************************************************************)
(* C8: for an End(reward) outcome, every node of the backpropagation path  *)
(* receives reward - initialReward, initialReward being current_reward of  *)
(* the root state captured at the start of the iteration; the increment    *)
(* may be negative, zero or positive.                                      *)
(***************************************************************************)
C8_EndAddsRewardDelta ==
    [][(pc = "simulate" /\ pc' = "iterate" /\ Unwrap(result(sim)).tag = "End") =>
          /\ initial_reward = current_reward(Root.state)
          /\ \A idx \in PathToRoot(nodes, node_idx) :
                Increment(idx) = Unwrap(result(sim)).reward - initial_reward]_vars

\* a first pass whose delta is negative although the terminal reward is not
C8_Witness ==
    /\ pc = "iterate"
    /\ iter = 1
    /\ initial_reward > 0
    /\ IsSome(result(sim))
    /\ Unwrap(result(sim)).tag = "End"
    /\ Unwrap(result(sim)).reward >= 0
    /\ At(nodes, node_idx).reward < 0
    /\ Root.reward < 0

(***************************************************************************)
(* C9: for a Win or Draw outcome every increment backpropagation adds to a *)
(* node's reward is one of 0.0, 0.5, 1.0: exactly 0.5 at every node of the *)
(* path for a Draw, and 0.0 or 1.0 for a Win.                              *)
(***************************************************************************)
C9_AdversarialIncrements ==
    [][(pc = "simulate" /\ pc' = "iterate"
          /\ Unwrap(result(sim)).tag \in {"Win", "Draw"}) =>
          /\ \A idx \in 0..(Len(nodes) - 1) : Increment(idx) \in {0, 1, 2}
          /\ \A idx \in PathToRoot(nodes, node_idx) :
                IF Unwrap(result(sim)).tag = "Draw"
                THEN Increment(idx) = 1
                ELSE Increment(idx) \in {0, 2}]_vars

\* a first pass of a drawn playout: the new node and the root hold 0.5 each
C9_Witness ==
    /\ pc = "iterate"
    /\ iter = 1
    /\ result(sim) = Some(Draw)
    /\ node_idx # 0
    /\ At(nodes, node_idx).reward = 1
    /\ Root.reward = 1

SearchCalled == pc \in {"idle", "done"} /\ pc' = "iterate"

(***************************************************************************)
(* C11: every call of search, whatever arena the earlier calls left, starts *)
(* its loop from an arena that holds one node only, the fresh root: the    *)
(* state searched, no parent, no action, visits 0, reward 0, no children,  *)
(* untried_actions = allowed_actions(state).                               *)
(***************************************************************************)
C11_SearchStartsFromFreshRoot ==
    [][SearchCalled =>
         /\ Len(nodes') = 1
         /\ nodes'[1].state = game
         /\ nodes'[1].parent = None
         /\ nodes'[1].action = None
         /\ nodes'[1].visits = 0
         /\ nodes'[1].reward = 0
         /\ nodes'[1].children = << >>
         /\ nodes'[1].untried_actions = allowed_actions(game)]_vars

\* a second search on a state whose first search grew a tree has just started
C11_Witness ==
    /\ pc = "iterate"
    /\ iter = 0
    /\ IsSome(prev_ret)
    /\ Len(nodes) = 1
    /\ Len(Root.untried_actions) >= 2

\* the arena indices
Indices(arena) == 0..(Len(arena) - 1)

\* this step is the select and expand of one iteration
SelectExpanded == pc = "iterate" /\ pc' = "simulate"

(***************************************************************************)
(* C12: expand applied to a node that is terminal or has no untried        *)
(* actions returns the same index and the same arena; in a search, an      *)
(* iteration that selects a terminal node leaves the arena as it was, and  *)
(* no node with a terminal state ever has a child.                         *)
(***************************************************************************)
C12_ExpandLeavesExhaustedNodes ==
    [][/\ \A idx \in Indices(nodes) :
            LET node == At(nodes, idx)
            IN (is_terminal(node) \/ Len(node.untried_actions) = 0) =>
                   expand(nodes, idx) = [ok |-> TRUE, arena |-> nodes, idx |-> idx]
       /\ (SelectExpanded /\ node_idx' \in Indices(nodes)) =>
              /\ is_terminal(At(nodes, node_idx'))
              /\ nodes' = nodes
       /\ \A idx \in Indices(nodes') :
            is_terminal(At(nodes', idx)) => At(nodes', idx).children = << >>]_vars

\* an iteration has selected a terminal node it had visited before
C12_Witness ==
    /\ pc = "simulate"
    /\ node_idx # 0
    /\ is_terminal(At(nodes, node_idx))
    /\ At(nodes, node_idx).visits >= 1
    /\ \E idx \in Indices(nodes) :
         /\ ~is_terminal(At(nodes, idx))
         /\ Len(At(nodes, idx).untried_actions) = 0

\* children.len() <= |allowed_actions(node.state)| - untried_actions.len() at every node
ChildrenWithinTried(arena) ==
    \A idx \in Indices(arena) :
        LET node == At(arena, idx)
        IN Len(node.children) <=
               Len(allowed_actions(node.state)) - Len(node.untried_actions)

(***************************************************************************)
(* C13: at every point of a search every node has at most as many children *)
(* as legal actions no longer in untried_actions; an iteration that        *)
(* expands a node adds one node to the arena, removes exactly one action   *)
(* (the last) from that node's untried_actions, appends exactly the new    *)
(* index to its children, and changes no other node.                       *)
(***************************************************************************)
C13_OneChildPerTriedAction ==
    [][/\ ChildrenWithinTried(nodes)
       /\ ChildrenWithinTried(nodes')
       /\ (SelectExpanded /\ nodes' # nodes) =>
              /\ Len(nodes') = Len(nodes) + 1
              /\ node_idx' = Len(nodes)
              /\ IsSome(At(nodes', node_idx').parent)
              /\ LET p == Unwrap(At(nodes', node_idx').parent)
                     before == At(nodes, p)
                     after == At(nodes', p)
                     n == Len(before.untried_actions)
                 IN /\ p \in Indices(nodes)
                    /\ n >= 1
                    /\ after.untried_actions = SubSeq(before.untried_actions, 1, n - 1)
                    /\ after.children = Append(before.children, node_idx')
                    /\ \A idx \in Indices(nodes) \ {p} :
                           At(nodes', idx) = At(nodes, idx)]_vars

\* a node has just been expanded a second time and has an action left
C13_Witness ==
    /\ pc = "simulate"
    /\ \E idx \in Indices(nodes) :
         /\ Len(At(nodes, idx).children) = 2
         /\ Len(At(nodes, idx).untried_actions) = 1
         /\ At(nodes, node_idx).parent = Some(idx)

\* the number of positions of seq that hold x
Occurrences(seq, x) == Cardinality({k \in 1..Len(seq) : seq[k] = x})

(***************************************************************************)
(* C14: at every point of a search the arena is a tree rooted at index 0:  *)
(* node 0 has parent None and action None; every other node has parent     *)
(* Some(p) with p smaller than its own index and action Some(a), occurs    *)
(* exactly once in the children of p and in no other children list, and    *)
(* its parent chain ends at the root.                                      *)
(***************************************************************************)
C14_ArenaIsTree ==
    InSearch =>
        /\ Len(nodes) >= 1
        /\ Root.parent = None
        /\ Root.action = None
        /\ \A idx \in Indices(nodes) \ {0} :
             LET node == At(nodes, idx)
             IN /\ IsSome(node.parent)
                /\ IsSome(node.action)
                /\ Unwrap(node.parent) \in 0..(idx - 1)
                /\ 0 \in PathToRoot(nodes, idx)
                /\ \A q \in Indices(nodes) :
                     Occurrences(At(nodes, q).children, idx) =
                         IF q = Unwrap(node.parent) THEN 1 ELSE 0
        /\ \A q \in Indices(nodes) :
             Range(At(nodes, q).children) \subseteq Indices(nodes) \ {0}

\* the tree has two levels below the root, and the root several children
C14_Witness ==
    /\ pc = "simulate"
    /\ Len(Root.children) >= 2
    /\ \E idx \in Indices(nodes) \ {0} :
         /\ At(nodes, idx).parent # Some(0)
         /\ At(nodes, idx).parent = Some(Root.children[1])

\* some child of the node at idx has never been visited
HasUnvisitedChild(arena, idx) ==
    \E c \in Range(At(arena, idx).children) : At(arena, c).visits = 0

(***************************************************************************)
(* C15: on every node of the arena that has a child with zero visits,      *)
(* best_child (of either engine, with either exploration constant) returns *)
(* a child with zero visits, whatever the visits and rewards of the        *)
(* visited siblings.                                                       *)
(***************************************************************************)
C15_BestChildPrefersUnvisited ==
    \A idx \in Indices(nodes) :
        HasUnvisitedChild(nodes, idx) =>
            /\ best_child(nodes, idx).ok
            /\ At(nodes, best_child(nodes, idx).idx).visits = 0
            /\ \A e2 \in ExplorationSquares :
                 /\ mcts_best_child(nodes, idx, e2).ok
                 /\ At(nodes, mcts_best_child(nodes, idx, e2).idx).visits = 0

\* the root has a child not yet visited beside a sibling that won every playout
C15_Witness ==
    /\ pc = "simulate"
    /\ HasUnvisitedChild(nodes, 0)
    /\ \E c \in RootChildren :
         /\ At(nodes, c).visits >= 1
         /\ At(nodes, c).reward = 2 * At(nodes, c).visits
    /\ At(nodes, best_child(nodes, 0).idx).visits = 0

(***************************************************************************)
(* C20: search leaves the caller's game state unchanged: no step of a      *)
(* search, from the call to the return, changes the caller's state (board, *)
(* current player, result), which stays the state the root was built from. *)
(***************************************************************************)
C20_SearchLeavesStateUnchanged ==
    [][(SearchCalled \/ pc \in {"iterate", "simulate"}) =>
           /\ game' = game
           /\ At(nodes', 0).state = game]_vars

\* a search of several iterations, whose last playout made moves, has returned
C20_Witness ==
    /\ pc = "done"
    /\ IsSome(ret)
    /\ iter >= 2
    /\ Len(nodes) >= 3
    /\ sim # At(nodes, node_idx).state
    /\ game = Root.state

\* the node the iteration about to run selects
Selected ==
    IF cfg.engine = "mcts2" THEN select(nodes)
    ELSE mcts_select(nodes, 0, cfg.exploration2)

\* the iteration about to run expands a node by an action its game's step refuses
ExpansionStepFails ==
    /\ pc = "iterate"
    /\ iter < cfg.num_iters
    /\ Selected.ok
    /\ LET node == At(nodes, Selected.idx)
           n == Len(node.untried_actions)
       IN /\ ~is_terminal(node)
          /\ n >= 1
          /\ ~step(node.state, node.untried_actions[n]).ok

\* the children lists of the arena, in index order
ChildrenLists(arena) == [k \in 1..Len(arena) |-> arena[k].children]

(***************************************************************************)
(* C16: if step returns Err during expansion the search aborts (panic)     *)
(* and no child is added for the failed action; a playout goes on only by  *)
(* a step that returned Ok; an aborted search is never resumed and returns *)
(* no action.                                                              *)
(***************************************************************************)
C16_StepErrorAbortsSearch ==
    [][/\ ExpansionStepFails =>
              /\ pc' = "panic"
              /\ Len(nodes') = Len(nodes)
              /\ ChildrenLists(nodes') = ChildrenLists(nodes)
       /\ (pc = "simulate" /\ ~IsSome(result(sim)) /\ pc' # "panic") =>
              \E a \in Range(allowed_actions(sim)) :
                  /\ step(sim, a).ok
                  /\ sim' = step(sim, a).state
       /\ pc = "panic" => pc' = "panic"
       /\ pc' = "panic" => ret' = None]_vars

\* a search on a position with a legal action has aborted in the expansion
\* of a later iteration, after a playout that ended
C16_Witness ==
    /\ pc = "panic"
    /\ Searchable(game)
    /\ iter >= 1
    /\ iter < cfg.num_iters
    /\ IsSome(result(sim))
    /\ ret = None

\* a search has aborted in a playout that had made a move
C16_WitnessPlayout ==
    /\ pc = "panic"
    /\ ~IsSome(result(sim))
    /\ sim # At(nodes, node_idx).state
    /\ \E a \in Range(allowed_actions(sim)) : ~step(sim, a).ok

(***************************************************************************)
(* C17: in every TicTacToe and Connect4 state reached from the default     *)
(* state by successful steps, allowed_actions() is empty if and only if    *)
(* result() is Some.                                                       *)
(***************************************************************************)
C17_NoActionsIffResult ==
    game.kind \in {"TicTacToe", "Connect4"} =>
        (Len(allowed_actions(game)) = 0 <=> IsSome(result(game)))

\* a Connect4 game has filled the board without a run of four
C17_Witness ==
    /\ game.kind = "Connect4"
    /\ Free(game) = 0
    /\ result(game) = Some(Draw)
    /\ Len(allowed_actions(game)) = 0

\* a Connect4 game is going on with a full column and a single column open
C17_WitnessOpen ==
    /\ game.kind = "Connect4"
    /\ ~IsSome(result(game))
    /\ Len(allowed_actions(game)) = 1

\* the action values a step is tried with: in range and out of range
Positions == 0..MaxPos

(***************************************************************************)
(* C18: on every reachable TicTacToe and Connect4 state and for every      *)
(* action value, out-of-range ones included, step returns Ok if and only   *)
(* if the action is one of allowed_actions() of the state; every step on a *)
(* terminal state returns Err.                                             *)
(***************************************************************************)
C18_StepOkIffAllowed ==
    game.kind \in {"TicTacToe", "Connect4"} =>
        /\ \A a \in Positions :
             step(game, a).ok <=> a \in Range(allowed_actions(game))
        /\ IsSome(result(game)) => \A a \in Positions : ~step(game, a).ok

\* a TicTacToe game has been won with cells left empty: step on them is Err
C18_Witness ==
    /\ game.kind = "TicTacToe"
    /\ IsSome(result(game))
    /\ \E a \in Positions :
         /\ a < 9
         /\ game.board[a] = Empty
         /\ ~step(game, a).ok

\* a Connect4 game is going on with a full column: step on it is Err, and so
\* is step on the column numbers past the board
C18_WitnessFullColumn ==
    /\ game.kind = "Connect4"
    /\ ~IsSome(result(game))
    /\ \E a \in 0..(COLS - 1) : IsSome(game.board[0][a]) /\ ~step(game, a).ok
    /\ ~step(game, COLS).ok

(***************************************************************************)
(* C19: whenever step returns Err on a TicTacToe or Connect4 state, the    *)
(* state after the call (board, current player, result) is the state       *)
(* before it.                                                              *)
(***************************************************************************)
C19_StepErrLeavesState ==
    game.kind \in {"TicTacToe", "Connect4"} =>
        \A a \in Positions : ~step(game, a).ok => step(game, a).state = game

\* a Connect4 game has been won with a column open and another full: step is
\* Err on both
C19_Witness ==
    /\ game.kind = "Connect4"
    /\ IsSome(result(game))
    /\ \E a, b \in 0..(COLS - 1) :
         /\ ~IsSome(game.board[0][a])
         /\ IsSome(game.board[0][b])
         /\ ~step(game, a).ok
         /\ ~step(game, b).ok

\* best_child of the engine in use, at the node at idx
BestChildOf(idx) ==
    IF cfg.engine = "mcts2" THEN best_child(nodes, idx)
    ELSE mcts_best_child(nodes, idx, cfg.exploration2)

(***************************************************************************)
(* C21: at the start of every iteration, select returns a node that is     *)
(* terminal or still has untried actions; every node above it up to the    *)
(* root is non-terminal, has no untried action, and is left through its    *)
(* best child (the child with the highest score).                          *)
(***************************************************************************)
C21_SelectStopsAtFirstOpenNode ==
    pc = "iterate" =>
        /\ Selected.ok
        /\ LET node == At(nodes, Selected.idx)
               path == PathToRoot(nodes, Selected.idx)
           IN /\ is_terminal(node) \/ Len(node.untried_actions) >= 1
              /\ \A q \in path \ {Selected.idx} :
                   /\ ~is_terminal(At(nodes, q))
                   /\ Len(At(nodes, q).untried_actions) = 0
                   /\ BestChildOf(q).ok
                   /\ BestChildOf(q).idx \in path

\* select is about to descend two levels, past a node whose sibling has
\* untried actions, to a terminal node
C21_Witness ==
    /\ pc = "iterate"
    /\ iter < cfg.num_iters
    /\ At(nodes, Selected.idx).parent # None
    /\ At(nodes, Selected.idx).parent # Some(0)
    /\ is_terminal(At(nodes, Selected.idx))
    /\ \E c \in RootChildren : Len(At(nodes, c).untried_actions) >= 1

\* select is about to stop at a non-terminal node below the root
C21_WitnessOpen ==
    /\ pc = "iterate"
    /\ iter < cfg.num_iters
    /\ Selected.idx # 0
    /\ ~is_terminal(At(nodes, Selected.idx))
    /\ Len(Root.children) >= 2

\* the score best_child of the engine in use gives the node at idx under parent_visits
ScoreOf(idx, parent_visits) ==
    IF cfg.engine = "mcts2" THEN uct(At(nodes, idx), parent_visits)
    ELSE ucb1(At(nodes, idx), parent_visits, cfg.exploration2)

(***************************************************************************)
(* C22: in a search over TicTacToe or Connect4, every node selection       *)
(* applies best_child to (the nodes the descent of select leaves) has at   *)
(* least one child and visits >= 1, and each of its children has visits    *)
(* >= 1, so every score compared is a finite number and best_child does    *)
(* not fail.                                                               *)
(***************************************************************************)
C22_RankingOnlyVisitedChildren ==
    pc = "iterate" =>
        /\ Selected.ok
        /\ \A q \in PathToRoot(nodes, Selected.idx) \ {Selected.idx} :
             LET node == At(nodes, q)
             IN /\ Len(node.children) >= 1
                /\ node.visits >= 1
                /\ \A c \in Range(node.children) :
                     /\ At(nodes, c).visits >= 1
                     /\ ScoreOf(c, node.visits) \notin {NaN, Infinity}
                /\ BestChildOf(q).ok

\* in a Connect4 search, selection is about to rank the children of the root
\* and those of one of its children
C22_Witness ==
    /\ pc = "iterate"
    /\ iter < cfg.num_iters
    /\ game.kind = "Connect4"
    /\ Len(Root.children) >= 2
    /\ At(nodes, Selected.idx).parent # None
    /\ At(nodes, Selected.idx).parent # Some(0)

\* the same in a TicTacToe search
C22_WitnessTicTacToe ==
    /\ pc = "iterate"
    /\ iter < cfg.num_iters
    /\ game.kind = "TicTacToe"
    /\ Len(Root.children) >= 2
    /\ At(nodes, Selected.idx).parent # None
    /\ At(nodes, Selected.idx).parent # Some(0)

(***************************************************************************)
(* C23: the children of a node are created in reverse order of             *)
(* allowed_actions(node.state): the j-th child of a node, in creation      *)
(* order (the order of its children list and of the arena), carries the    *)
(* j-th action counted from the end of that list.                          *)
(***************************************************************************)
C23_ChildrenInReverseActionOrder ==
    InSearch =>
        \A idx \in Indices(nodes) :
            LET node == At(nodes, idx)
                acts == allowed_actions(node.state)
            IN \A j \in 1..Len(node.children) :
                 /\ j <= Len(acts)
                 /\ At(nodes, node.children[j]).action = Some(acts[Len(acts) + 1 - j])
                 /\ j >= 2 => node.children[j - 1] < node.children[j]

\* the root has all of its three children, and the first of them a child too
C23_Witness ==
    /\ pc = "simulate"
    /\ Len(allowed_actions(Root.state)) = 3
    /\ Len(Root.children) = 3
    /\ At(nodes, node_idx).parent # Some(0)
    /\ At(nodes, Root.children[1]).action = Some(allowed_actions(Root.state)[3])
    /\ At(nodes, Root.children[3]).action = Some(allowed_actions(Root.state)[1])

\* this step is the backpropagation of a playout
BackedUp == pc = "simulate" /\ pc' = "iterate"

(***************************************************************************)
(* C24: one backpropagation pass increments visits by exactly 1 on each    *)
(* node of the parent chain from the expanded node to the root inclusive,  *)
(* and leaves the visits and the reward of every other node unchanged.     *)
(***************************************************************************)
C24_BackupTouchesParentChainOnly ==
    [][BackedUp =>
         /\ Len(nodes') = Len(nodes)
         /\ 0 \in PathToRoot(nodes, node_idx)
         /\ \A idx \in Indices(nodes) :
              IF idx \in PathToRoot(nodes, node_idx)
              THEN At(nodes', idx).visits = At(nodes, idx).visits + 1
              ELSE /\ At(nodes', idx).visits = At(nodes, idx).visits
                   /\ At(nodes', idx).reward = At(nodes, idx).reward]_vars

\* a playout from a grandchild of the root has been backed up past siblings
\* that keep their counts
C24_Witness ==
    /\ pc = "iterate"
    /\ iter >= 1
    /\ Cardinality(PathToRoot(nodes, node_idx)) = 3
    /\ At(nodes, node_idx).visits = 1
    /\ Root.visits = iter
    /\ Len(nodes) >= 5

\* the number of cells of the board of s
Cells(s) == IF s.kind = "Connect4" THEN ROWS * COLS ELSE 9

\* from s a playout ends or goes on by any of its random choices, each of
\* which fills one cell; a board without empty cell has a result
PlayoutProgresses(s) ==
    /\ Free(s) \in 0..Cells(s)
    /\ Free(s) = 0 => IsSome(result(s))
    /\ ~IsSome(result(s)) =>
           /\ Len(allowed_actions(s)) >= 1
           /\ \A a \in Range(allowed_actions(s)) :
                /\ step(s, a).ok
                /\ Free(step(s, a).state) = Free(s) - 1

(***************************************************************************)
(* C25: for TicTacToe and Connect4, a simulation ends with a result after  *)
(* at most 9 resp. 42 steps whatever the random choices: the number of     *)
(* empty cells, at most 9 resp. 42, falls by one with every step of the    *)
(* playout; a state without result always has a legal action and every     *)
(* legal action is accepted, and a full board has a result, so the playout *)
(* never aborts.  Started at a terminal state the simulation returns that  *)
(* state's result without applying an action.                              *)
(***************************************************************************)
C25_SimulationTerminates ==
    [][/\ Free(sim) = Cells(sim) => PlayoutProgresses(sim)
       /\ sim' # sim => PlayoutProgresses(sim')
       /\ pc = "simulate" =>
              IF IsSome(result(sim))
              THEN pc' = "iterate" /\ sim' = sim
              ELSE /\ pc' = "simulate"
                   /\ Free(sim') = Free(sim) - 1]_vars

\* a Connect4 playout of two steps or more has ended
C25_Witness ==
    /\ pc = "simulate"
    /\ game.kind = "Connect4"
    /\ IsSome(result(sim))
    /\ Free(At(nodes, node_idx).state) - Free(sim) >= 2

\* a simulation has started at a terminal node and backed its result up
C25_WitnessTerminal ==
    /\ pc = "iterate"
    /\ iter >= 1
    /\ is_terminal(At(nodes, node_idx))
    /\ sim = At(nodes, node_idx).state

\* the positions of a whole game of 42 moves are among the states examined
C25_WitnessFullBoard ==
    /\ sim.kind = "Connect4"
    /\ Free(sim) = 0

\* seq is an initial part of longer
IsPrefix(seq, longer) ==
    /\ Len(seq) <= Len(longer)
    /\ seq = SubSeq(longer, 1, Len(seq))

(***************************************************************************)
(* C26: within one search the arena only grows and nodes only progress: a  *)
(* step appends at most one node and an iteration exactly one or none, so  *)
(* after iter iterations the arena holds at most iter + 1 nodes; no node   *)
(* is removed or moved to another index; the state, action and parent of   *)
(* an existing node never change, its untried_actions never grows, its     *)
(* children list never shrinks, and its visits never decrease.             *)
(***************************************************************************)
C26_ArenaGrowsMonotonically ==
    [][(pc = "iterate" \/ pc = "simulate") =>
         /\ Len(nodes') \in {Len(nodes), Len(nodes) + 1}
         /\ pc = "simulate" => Len(nodes') = Len(nodes)
         /\ Len(nodes') <= iter' + (IF pc' = "simulate" THEN 2 ELSE 1)
         /\ \A idx \in Indices(nodes) :
              LET before == At(nodes, idx)
                  after == At(nodes', idx)
              IN /\ after.state = before.state
                 /\ after.action = before.action
                 /\ after.parent = before.parent
                 /\ after.visits >= before.visits
                 /\ IsPrefix(after.untried_actions, before.untried_actions)
                 /\ IsPrefix(before.children, after.children)]_vars

\* a search of four iterations has ended with five nodes in the arena
C26_Witness ==
    /\ pc = "done"
    /\ iter = 4
    /\ Len(nodes) = iter + 1

\* a search has ended with fewer nodes than iterations plus one
C26_WitnessFewer ==
    /\ pc = "done"
    /\ iter >= 3
    /\ Len(nodes) < iter + 1
    /\ Len(nodes) >= 3

\* the arena after the backpropagation of the playout that has ended in sim
BackedUpArena ==
    IF cfg.engine = "mcts2"
    THEN backup(nodes, node_idx, Unwrap(result(sim)), initial_reward)
    ELSE backpropagate(nodes, node_idx, result(sim), current_player(Root.state))

\* what best_action of the engine in use returns on the arena
ReturnedAction ==
    IF cfg.engine = "mcts2" THEN best_action(nodes).action
    ELSE mcts_best_action(nodes, 0)

(***************************************************************************)
(* C27: the random index drawn in a playout is the only choice in a        *)
(* search.  Every step of a search leads to the one state that the state   *)
(* before it (and, in a playout, the index drawn) determines: the root     *)
(* from the state searched, the expanded arena from select and expand, the *)
(* counts from backup, the returned action from best_action.  Two searches *)
(* on equal states with equal iteration counts that draw the same indices  *)
(* therefore pass through the same arenas and return the same action.      *)
(***************************************************************************)
C27_OnlyPlayoutDrawsChoose ==
    [][/\ SearchCalled =>
              /\ nodes' = <<Node_new(None, game, None)>>
              /\ iter' = 0
       /\ (pc = "iterate" /\ iter < cfg.num_iters /\ pc' # "panic") =>
              /\ nodes' = expand(nodes, Selected.idx).arena
              /\ node_idx' = expand(nodes, Selected.idx).idx
              /\ sim' = At(nodes', node_idx').state
              /\ <<iter', ret', pc'>> = <<iter, ret, "simulate">>
       /\ (pc = "simulate" /\ ~IsSome(result(sim)) /\ pc' # "panic") =>
              /\ \E i \in 1..Len(allowed_actions(sim)) :
                     sim' = step(sim, allowed_actions(sim)[i]).state
              /\ \A i, j \in 1..Len(allowed_actions(sim)) :
                     i # j => step(sim, allowed_actions(sim)[i]).state
                                  # step(sim, allowed_actions(sim)[j]).state
              /\ <<nodes', iter', node_idx', ret', pc'>> =
                     <<nodes, iter, node_idx, ret, "simulate">>
       /\ (pc = "simulate" /\ IsSome(result(sim))) =>
              /\ nodes' = BackedUpArena
              /\ <<iter', node_idx', sim', ret', pc'>> =
                     <<iter + 1, node_idx, sim, ret, "iterate">>
       /\ (pc = "iterate" /\ iter = cfg.num_iters /\ pc' # "panic") =>
              /\ ret' = ReturnedAction
              /\ <<nodes', iter', node_idx', sim', pc'>> =
                     <<nodes, iter, node_idx, sim, "done">>
       /\ (pc = "iterate" \/ pc = "simulate") => <<game', cfg'>> = <<game, cfg>>]_vars

\* a search has returned after expanding a node that had several untried
\* actions and after a playout that drew among several actions
C27_Witness ==
    /\ pc = "done"
    /\ IsSome(ret)
    /\ iter >= 3
    /\ Len(Root.children) >= 2
    /\ Free(sim) <= Free(At(nodes, node_idx).state) - 1

\* the eight lines of the 3 x 3 board: three rows, three columns, two diagonals
BoardLines ==
    {{3 * r + c : c \in 0..2} : r \in 0..2}
    \cup {{3 * r + c : r \in 0..2} : c \in 0..2}
    \cup {{0, 4, 8}, {2, 4, 6}}

\* player p occupies all three cells of a line
HoldsLine(s, p) == \E line \in BoardLines : \A i \in line : s.board[i] = Occupied(p)

BoardFull(s) == \A i \in 0..8 : s.board[i] # Empty

(***************************************************************************)
(* C28: in every TicTacToe state reachable from the default state by       *)
(* successful steps, result() is Win(p) if and only if p occupies all      *)
(* three cells of one of the 8 lines, Draw if and only if the board is     *)
(* full and no line is complete, and None otherwise; at most one player    *)
(* has a complete line, and a full board with a complete line is a Win.    *)
(***************************************************************************)
C28_TicTacToeResult ==
    game.kind = "TicTacToe" =>
        /\ \A p \in Player : result(game) = Some(Win(p)) <=> HoldsLine(game, p)
        /\ result(game) = Some(Draw) <=>
               (BoardFull(game) /\ \A p \in Player : ~HoldsLine(game, p))
        /\ result(game) = None <=>
               (~BoardFull(game) /\ \A p \in Player : ~HoldsLine(game, p))
        /\ ~(HoldsLine(game, "X") /\ HoldsLine(game, "O"))

\* the ninth move has completed a line: the result is a Win
C28_Witness ==
    /\ game.kind = "TicTacToe"
    /\ BoardFull(game)
    /\ HoldsLine(game, "X")
    /\ result(game) = Some(Win("X"))

\* the board is full without a line: the result is Draw
C28_WitnessDraw ==
    /\ game.kind = "TicTacToe"
    /\ BoardFull(game)
    /\ result(game) = Some(Draw)

\* O has won with cells left empty
C28_WitnessO ==
    /\ game.kind = "TicTacToe"
    /\ ~BoardFull(game)
    /\ result(game) = Some(Win("O"))

\* the four directions of a run: along a row, down a column, down either diagonal
Directions == {<<0, 1>>, <<1, 0>>, <<1, 1>>, <<1, -1>>}

\* player p has four consecutive pieces in a row, a column or a diagonal
FourInLine(s, p) ==
    \E row \in 0..(ROWS - 1), col \in 0..(COLS - 1), d \in Directions :
        \A i \in 0..3 :
            /\ row + i * d[1] \in 0..(ROWS - 1)
            /\ col + i * d[2] \in 0..(COLS - 1)
            /\ s.board[row + i * d[1]][col + i * d[2]] = Some(p)

\* every piece rests on the bottom row or on another piece
PiecesRest(s) ==
    \A row \in 0..(ROWS - 2), col \in 0..(COLS - 1) :
        IsSome(s.board[row][col]) => IsSome(s.board[row + 1][col])

(***************************************************************************)
(* C29: in every Connect4 state reachable from the default state by        *)
(* successful steps, result() is Win(p) if and only if p has four          *)
(* consecutive pieces in a row, column or diagonal, Draw if and only if    *)
(* all 42 cells are occupied and nobody has four in line, and None         *)
(* otherwise; every piece rests on the bottom row or on another piece.     *)
(***************************************************************************)
C29_Connect4Result ==
    game.kind = "Connect4" =>
        /\ \A p \in Player : result(game) = Some(Win(p)) <=> FourInLine(game, p)
        /\ result(game) = Some(Draw) <=>
               (Free(game) = 0 /\ \A p \in Player : ~FourInLine(game, p))
        /\ result(game) = None <=>
               (Free(game) >= 1 /\ \A p \in Player : ~FourInLine(game, p))
        /\ PiecesRest(game)

\* O has won by a diagonal that rises to the right, and by no other run
C29_Witness ==
    /\ game.kind = "Connect4"
    /\ result(game) = Some(Win("O"))
    /\ \E k \in 1..Len(DiagonalUpLines) :
         Connect4_line_won(game.board, DiagonalUpLines[k])
    /\ \A k \in 1..Len(Connect4_lines_without_diagonal_up) :
         ~Connect4_line_won(game.board, Connect4_lines_without_diagonal_up[k])

\* the last of the 42 cells has been filled by a move that makes four in line
C29_WitnessLastCell ==
    /\ game.kind = "Connect4"
    /\ Free(game) = 0
    /\ \E p \in Player : result(game) = Some(Win(p))

\* the player to move when X has moved first and the turns have alternated
TurnOf(s) == IF (Cells(s) - Free(s)) % 2 = 0 THEN "X" ELSE "O"

(***************************************************************************)
(* C30: in TicTacToe and Connect4, X moves first and every successful step *)
(* hands the turn to the opponent, the step that ends the game included:   *)
(* the player to move is X exactly when the number of pieces is even, and  *)
(* in a search tree the opponent of the current player of every non-root   *)
(* node's state is the current player of its parent's state.               *)
(***************************************************************************)
C30_TurnsAlternate ==
    game.kind \in {"TicTacToe", "Connect4"} =>
        /\ \A s \in {game, sim} :
             /\ current_player(s) = TurnOf(s)
             /\ \A a \in Range(allowed_actions(s)) :
                  current_player(step(s, a).state) = opponent(current_player(s))
        /\ \A idx \in Indices(nodes) \ {0} :
             LET node == At(nodes, idx)
             IN /\ current_player(node.state) = TurnOf(node.state)
                /\ opponent(current_player(node.state)) =
                       current_player(At(nodes, Unwrap(node.parent)).state)

\* a Connect4 search tree holds a node whose move ended the game
C30_Witness ==
    /\ game.kind = "Connect4"
    /\ pc = "simulate"
    /\ \E idx \in Indices(nodes) \ {0} :
         /\ is_terminal(At(nodes, idx))
         /\ At(nodes, idx).parent # Some(0)
         /\ current_player(At(nodes, idx).state) # current_player(Root.state)

\* a TicTacToe search tree holds a node whose move ended the game
C30_WitnessTicTacToe ==
    /\ game.kind = "TicTacToe"
    /\ pc = "simulate"
    /\ \E idx \in Indices(nodes) \ {0} :
         /\ is_terminal(At(nodes, idx))
         /\ opponent(current_player(At(nodes, idx).state)) =
                current_player(At(nodes, Unwrap(At(nodes, idx).parent)).state)

\* an iteration has just ended or the search has returned: no pass is under way
BetweenIterations == pc = "iterate" \/ pc = "done"

(***************************************************************************)
(* C33: at the end of every iteration of a search of the generic engine    *)
(* over TicTacToe or Connect4, a non-terminal root has as many visits as   *)
(* its children together, a non-terminal node below the root has one more  *)
(* (the pass that created it), and a terminal node has no child at all.    *)
(***************************************************************************)
C33_VisitsSumOfChildren ==
    BetweenIterations =>
        \A idx \in Indices(nodes) :
            LET node == At(nodes, idx)
                below == SumVisits(nodes, node.children)
            IN IF is_terminal(node) THEN Len(node.children) = 0
               ELSE IF idx = 0 THEN node.visits = below
               ELSE node.visits = 1 + below

\* a Connect4 search whose root has passed through a child that has itself a
\* visited child, and a terminal node that absorbed two passes
C33_Witness ==
    /\ BetweenIterations
    /\ game.kind = "Connect4"
    /\ \E idx \in Indices(nodes) \ {0} :
         /\ ~is_terminal(At(nodes, idx))
         /\ At(nodes, idx).visits >= 2
    /\ \E idx \in Indices(nodes) \ {0} :
         /\ is_terminal(At(nodes, idx))
         /\ At(nodes, idx).visits >= 2

C33_WitnessTicTacToe ==
    /\ BetweenIterations
    /\ game.kind = "TicTacToe"
    /\ ~is_terminal(Root)
    /\ Root.visits = MaxIters
    /\ \E idx \in Indices(nodes) \ {0} :
         /\ ~is_terminal(At(nodes, idx))
         /\ At(nodes, idx).visits >= 2

\* the last position of keys that holds the greatest key
LastGreatest(keys) ==
    CHOOSE k \in 1..Len(keys) :
        /\ \A j \in 1..Len(keys) : keys[j] <= keys[k]
        /\ \A j \in (k + 1)..Len(keys) : keys[j] < keys[k]

\* the visits of the children of the node at idx, in the order of its list
ChildVisits(idx) ==
    [k \in 1..Len(At(nodes, idx).children) |->
        At(nodes, At(nodes, idx).children[k]).visits]

\* the scores of the children of the node at idx, in the order of its list
ChildScores(idx) ==
    [k \in 1..Len(At(nodes, idx).children) |->
        uct(At(nodes, At(nodes, idx).children[k]), At(nodes, idx).visits)]

\* two positions of keys hold the greatest key
TiedAtTop(keys) ==
    \E j \in 1..Len(keys) : j # LastGreatest(keys) /\ keys[j] = keys[LastGreatest(keys)]

(***************************************************************************)
(* C34: the action a search of the generic engine returns is that of the   *)
(* last child in the root's list among those with the most visits, and     *)
(* best_child of a visited node with children is the last child in its     *)
(* list among those with the greatest score.                               *)
(***************************************************************************)
C34_TiesGoToLastChild ==
    /\ pc = "done" =>
           ret = At(nodes, Root.children[LastGreatest(ChildVisits(0))]).action
    /\ InSearch =>
           \A idx \in Indices(nodes) :
               LET node == At(nodes, idx)
               IN (Len(node.children) >= 1 /\ node.visits >= 1) =>
                      /\ best_child(nodes, idx).ok
                      /\ best_child(nodes, idx).idx =
                             node.children[LastGreatest(ChildScores(idx))]

\* a search has returned with two root children tied for the most visits,
\* and the root's children all visited and tied for the greatest score
C34_Witness ==
    /\ pc = "done"
    /\ Len(Root.children) >= 3
    /\ TiedAtTop(ChildVisits(0))
    /\ TiedAtTop(ChildScores(0))
    /\ \A c \in RootChildren : At(nodes, c).visits >= 1

\* selection is about to descend through a root whose children tie for the
\* greatest score, all of them visited
C34_WitnessDescent ==
    /\ pc = "iterate"
    /\ iter < cfg.num_iters
    /\ Selected.idx # 0
    /\ Len(Root.untried_actions) = 0
    /\ TiedAtTop(ChildScores(0))
    /\ LastGreatest(ChildScores(0)) # 1

\* the actions of the children of the node at idx, in the order of its list
ChildActions(idx) ==
    [k \in 1..Len(At(nodes, idx).children) |->
        At(nodes, At(nodes, idx).children[k]).action]

(***************************************************************************)
(* C35: at every point of a search, at every node, the actions of the      *)
(* children are pairwise distinct, none of them is in untried_actions, and *)
(* children's actions and untried_actions together are exactly             *)
(* allowed_actions of the node's state; each child's state is the node's   *)
(* state after step(child.action).                                         *)
(***************************************************************************)
C35_ChildrenAndUntriedPartition ==
    (InSearch /\ pc # "panic") =>
        \A idx \in Indices(nodes) :
            LET node == At(nodes, idx)
                acts == ChildActions(idx)
                tried == {Unwrap(acts[k]) : k \in 1..Len(acts)}
            IN /\ \A k \in 1..Len(acts) : IsSome(acts[k])
               /\ Cardinality(tried) = Len(acts)
               /\ tried \cap Range(node.untried_actions) = {}
               /\ tried \cup Range(node.untried_actions) =
                      Range(allowed_actions(node.state))
               /\ Len(acts) + Len(node.untried_actions) =
                      Len(allowed_actions(node.state))
               /\ \A k \in 1..Len(acts) :
                      LET child == At(nodes, node.children[k])
                          st == step(node.state, Unwrap(acts[k]))
                      IN st.ok /\ child.state = st.state

\* a Connect4 search in which a node has two children and an untried action left
C35_Witness ==
    /\ InSearch
    /\ pc # "panic"
    /\ game.kind = "Connect4"
    /\ \E idx \in Indices(nodes) :
         /\ Len(At(nodes, idx).children) >= 2
         /\ Len(At(nodes, idx).untried_actions) >= 1

\* a TicTacToe search whose root has a child for every legal action
C35_WitnessTicTacToe ==
    /\ InSearch
    /\ game.kind = "TicTacToe"
    /\ Len(Root.children) = MaxFree
    /\ Len(Root.untried_actions) = 0
    /\ \E idx \in Indices(nodes) \ {0} : Len(At(nodes, idx).children) >= 1

(***************************************************************************)
(* C36: in a search of the generic engine over TicTacToe or Connect4, the  *)
(* step call of an expansion returns Ok, a playout that has to move has an *)
(* action to draw and step accepts whichever it draws, so the search never *)
(* aborts on the unwrap of a step or on an index into an empty list; the   *)
(* only abort left happens after the loop, in best_action on a root        *)
(* without children.                                                       *)
(***************************************************************************)
C36_StepAbortsUnreachable ==
    /\ ~ExpansionStepFails
    /\ (pc = "iterate" /\ iter < cfg.num_iters) => Selected.ok
    /\ (pc = "simulate" /\ ~IsSome(result(sim))) =>
           LET actions == allowed_actions(sim)
           IN /\ Len(actions) >= 1
              /\ \A i \in 1..Len(actions) : step(sim, actions[i]).ok
    /\ pc = "panic" => iter = cfg.num_iters

\* a Connect4 playout from an expanded node that has made a move and has
\* another to make, the root having two children
C36_Witness ==
    /\ pc = "simulate"
    /\ game.kind = "Connect4"
    /\ ~IsSome(result(sim))
    /\ sim # At(nodes, node_idx).state
    /\ node_idx # 0
    /\ Len(Root.children) >= 2

\* the same in a TicTacToe search
C36_WitnessTicTacToe ==
    /\ pc = "simulate"
    /\ game.kind = "TicTacToe"
    /\ ~IsSome(result(sim))
    /\ sim # At(nodes, node_idx).state
    /\ Len(Root.children) >= 2

\* the head of the play_game loop with the human to move
HumanToMove == pc = "idle" /\ current_player(game) = "X"

\* step rejects the line read, or the line is not a number
Rejected(s, line) ==
    \/ ~IsSome(Parsed[line])
    \/ ~step(s, Unwrap(Parsed[line])).ok

(***************************************************************************)
(* C32: in the play_game loop, with X to move, a line that is not a number *)
(* or that step rejects leaves the game as it is, with X to move, and the  *)
(* loop running; a pass of the loop with X to move changes the game by a   *)
(* legal move of X or not at all and leaves the agent untouched, and a     *)
(* search only starts with O to move.                                      *)
(***************************************************************************)
C32_RejectedInputKeepsTurn ==
    /\ [](HumanToMove =>
              \A line \in Lines :
                  Rejected(game, line) =>
                      /\ human_turn(game, line) = game
                      /\ current_player(human_turn(game, line)) = "X"
                      /\ loop_end(human_turn(game, line)) = "idle")
    /\ [][/\ HumanToMove =>
                 /\ nodes' = nodes /\ ret' = ret /\ iter' = iter
                 /\ game' # game =>
                        \E action \in Range(allowed_actions(game)) :
                            /\ step(game, action).ok
                            /\ game' = step(game, action).state
                            /\ current_player(game') = "O"
          /\ (pc = "idle" /\ pc' = "iterate") => current_player(game) = "O"]_vars

\* the human is to move on a TicTacToe board on which the agent has moved
\* after a search: a digit naming an occupied cell, a number off the board
\* and a line that is not a number are all among the lines
C32_Witness ==
    /\ HumanToMove
    /\ game.kind = "TicTacToe"
    /\ Len(nodes) >= 2
    /\ \E line \in Lines :
         /\ IsSome(Parsed[line])
         /\ Unwrap(Parsed[line]) < 9
         /\ Rejected(game, line)
    /\ \E line \in Lines :
         /\ IsSome(Parsed[line])
         /\ Unwrap(Parsed[line]) >= 9
         /\ Rejected(game, line)
    /\ \E line \in Lines : ~IsSome(Parsed[line]) /\ Len(line) >= 1

\* the human is to move on a Connect4 board with a full column
C32_WitnessFullColumn ==
    /\ HumanToMove
    /\ game.kind = "Connect4"
    /\ \E line \in Lines :
         /\ IsSome(Parsed[line])
         /\ Unwrap(Parsed[line]) < COLS
         /\ Rejected(game, line)

\* search has been called and the action it returns has not been applied yet
AgentThinking == pc = "iterate" \/ pc = "simulate" \/ pc = "done"

(***************************************************************************)
(* C37: in play_game, search is only called on a state without a result   *)
(* and with O to move; the search returns Some(action) and step accepts    *)
(* the action, so the loop never aborts; the loop is left exactly when the *)
(* game has a result, and no step changes a game that has one.             *)
(***************************************************************************)
C37_PlayGameSearchesAndStops ==
    /\ [](/\ pc # "panic"
          /\ pc = "over" <=> IsSome(result(game))
          /\ AgentThinking =>
                 /\ Root.state = game
                 /\ ~IsSome(result(game))
                 /\ current_player(game) = "O"
          /\ pc = "done" =>
                 /\ IsSome(ret)
                 /\ step(game, Unwrap(ret)).ok)
    /\ [][/\ IsSome(result(game)) => game' = game
          /\ (pc = "done" /\ pc' # pc) =>
                 /\ game' = step(game, Unwrap(ret)).state
                 /\ current_player(game') = "X"
                 /\ pc' = "over" <=> IsSome(result(game'))]_vars

\* the loop has been left after a move of the agent, found by a search with a
\* root of two children, that won the game for O
C37_Witness ==
    /\ pc = "over"
    /\ result(game) = Some(Win("O"))
    /\ Len(nodes) >= 3
    /\ Root.state # game
    /\ IsSome(ret)
    /\ step(Root.state, Unwrap(ret)).state = game

\* the loop has been left after a move of the human that ended a Connect4
\* game in which the agent had searched before
C37_WitnessHuman ==
    /\ pc = "over"
    /\ game.kind = "Connect4"
    /\ current_player(game) = "O"
    /\ Len(nodes) >= 2

\* the agent's searched move has filled a TicTacToe or Connect4 board: a draw
C37_WitnessDraw ==
    /\ pc = "over"
    /\ result(game) = Some(Draw)
    /\ current_player(game) = "X"
    /\ Len(nodes) >= 2

(***************************************************************************)
(* C31: in every Tetris state reachable from Tetris::new() by steps,       *)
(* allowed_actions() is empty if and only if result() is Some.             *)
(***************************************************************************)
C31_TetrisNoActionsIffResult ==
    game.kind = "Tetris" =>
        (Len(Tetris_allowed_actions(game)) = 0 <=> IsSome(Tetris_result(game)))

\* the cells of the grid, as (row, column), that the falling tetromino of s covers
FallingCells(s) ==
    {<<s.cur_tetromino_row + r, s.cur_tetromino_col + c>> :
        <<r, c>> \in {rc \in (0..3) \X (0..3) :
                        Filled(s.cur_tetromino, s.cur_tetromino_rot, rc[1], rc[2])}}

(***************************************************************************)
(* C38: in every Tetris state reachable from Tetris::new() by steps, the   *)
(* falling tetromino lies inside the grid and covers no occupied cell.     *)
(***************************************************************************)
C38_TetrominoInGridOnFreeCells ==
    game.kind = "Tetris" =>
        \A cell \in FallingCells(game) :
            /\ cell[1] \in 0..(NUM_ROWS - 1)
            /\ cell[2] \in 0..(NUM_COLS - 1)
            /\ game.grid[cell[1] * NUM_COLS + cell[2]] = 0

====
